---- MODULE Spec2Model ----
(***************************************************************************)
(* Model of the speak-sample-store backend: the upload pipeline            *)
(* (middleware/upload.js, the second half of routes/recordings.js as       *)
(* shipped), the recording routes and the daily log ledger; the startup    *)
(* of the server process (ensureDirs); and the page: the useRecorder hook  *)
(* of one item row and the session count of the Index page.                *)
(*                                                                         *)
(* Strings are sequences of one-character strings, so that sanitising,     *)
(* formatting and the traversal check are computed character by character. *)
(* JavaScript values that may be undefined, a string or a number are       *)
(* records tagged with their type.                                         *)
(***************************************************************************)
EXTENDS Integers, Sequences, FiniteSets, Bags, TLC

VARIABLES
    clock,     \* server clock: [day, ms]
    files,     \* RECORDINGS_DIR: set of [name, by, ctime] (by: the request that wrote it)
    ledger,    \* LOGS_DIR: day -> [exists, logs] (one JSON array per day-file)
    reqs,      \* the requests: id -> record (inputs, position, locals, response)
    fnIn,      \* filename generator harness: req.body.meta seen by storage.filename
    fnOut,     \* filename generator harness: result of the last call
    proc,      \* the server process: [pc, code, failed] (startup, exit status)
    page,      \* the browser page: recorder hook, timers, session count
    save       \* the save-recording route: [pc, now, dir, reqs]

vars == <<clock, files, ledger, reqs, fnIn, fnOut, proc, page, save>>
serverVars == <<clock, files, ledger, reqs, proc>>
harnessVars == <<fnIn, fnOut>>

----------------------------------------------------------------------------
(* Bounds of the model.                                                    *)

\* free characters in front of the padding of a generated item name
MaxPre == 2
\* requests handled in one run of the server model
MaxReq == 2
\* last calendar day the clock reaches (0 is the day the process starts on)
MaxDay == 1
\* last millisecond of a day the clock reaches
MaxMs == 1

----------------------------------------------------------------------------
(* Characters and JavaScript values.                                       *)

Lower == <<"a","b","c","d","e","f","g","h","i","j","k","l","m",
           "n","o","p","q","r","s","t","u","v","w","x","y","z">>
Upper == <<"A","B","C","D","E","F","G","H","I","J","K","L","M",
           "N","O","P","Q","R","S","T","U","V","W","X","Y","Z">>
DigitSeq == <<"0","1","2","3","4","5","6","7","8","9">>

LowerSet == {Lower[i] : i \in 1..26}
DigitSet == {DigitSeq[i] : i \in 1..10}
\* the characters the regular expression class \s matches, as far as the
\* model's alphabet has them
SpaceSet == {" ", "\t"}

Rep(c, n) == [i \in 1..n |-> c]
Min(a, b) == IF a < b THEN a ELSE b

Undef == [t |-> "undefined"]
Str(s) == [t |-> "string", s |-> s]
Num(n) == [t |-> "number", n |-> n]

\* JavaScript truthiness of a value: undefined, "" and 0 are falsy
Truthy(v) ==
    CASE v.t = "undefined" -> FALSE
      [] v.t = "string" -> v.s # <<>>
      [] v.t = "number" -> v.n # 0

----------------------------------------------------------------------------
(* Filename generator: createSafeFilename and storage.filename.            *)

NameLimit == 50

toLowerCase(s) ==
    [i \in 1..Len(s) |->
        IF \E k \in 1..26 : Upper[k] = s[i]
        THEN Lower[CHOOSE k \in 1..26 : Upper[k] = s[i]]
        ELSE s[i]]

\* .replace(/[^a-z0-9\s]/g, '')
IsKept(c) == c \in LowerSet \cup DigitSet \cup SpaceSet
RemoveSpecial(s) == SelectSeq(s, IsKept)

\* .replace(/\s+/g, '_'): every maximal run of whitespace becomes one '_'
RECURSIVE SkipSpaces(_)
SkipSpaces(s) ==
    IF s # <<>> /\ s[1] \in SpaceSet THEN SkipSpaces(Tail(s)) ELSE s

RECURSIVE ReplaceSpaceRuns(_)
ReplaceSpaceRuns(s) ==
    IF s = <<>> THEN <<>>
    ELSE IF s[1] \in SpaceSet
         THEN <<"_">> \o ReplaceSpaceRuns(SkipSpaces(s))
         ELSE <<s[1]>> \o ReplaceSpaceRuns(Tail(s))

\* .substring(0, 50)
Substring0(s, n) == SubSeq(s, 1, Min(Len(s), n))

\* a plausible slip: whitespace is replaced first and the special characters
\* (now everything but a-z, 0-9 and '_') are stripped afterwards
createSafeFilename_spacesFirst(itemName) ==
    Substring0(SelectSeq(ReplaceSpaceRuns(toLowerCase(itemName)),
                         LAMBDA c : c \in LowerSet \cup DigitSet \cup {"_"}),
               NameLimit)

createSafeFilename(itemName) ==
    Substring0(ReplaceSpaceRuns(RemoveSpecial(toLowerCase(itemName))), NameLimit)

\* The server clock: a calendar day (0 is the day the process starts on,
\* 2025-08-20 in the formatted strings) and the millisecond within it.
TwoDigits(n) == <<DigitSeq[(n \div 10) + 1], DigitSeq[(n % 10) + 1]>>
\* dayjs(date).format('YYYY-MM-DD')
FormatDate(day) ==
    <<"2","0","2","5","-","0","8","-">> \o TwoDigits(20 + day)
\* new Date().toISOString()
toISOString(now) ==
    FormatDate(now.day) \o <<"T","0","0",":","0","0",":","0","0",".","0">>
        \o TwoDigits(now.ms) \o <<"Z">>
\* .replace(/[:.]/g, '-')
ReplaceColonDot(s) ==
    [i \in 1..Len(s) |-> IF s[i] \in {":", "."} THEN "-" ELSE s[i]]

SurveyPrefix == <<"s","u","r","v","e","y","_">>
WebmSuffix == <<".","w","e","b","m">>
Unknown == <<"u","n","k","n","o","w","n">>

\* req.body.meta as a multipart field: not received (undefined), text that
\* is not JSON, or the text of an object with the three validated fields
NoMeta == [t |-> "undefined"]
GarbageMeta == [t |-> "garbage"]
JsonMeta(itemName, timestamp, durationMs) ==
    [t |-> "json", itemName |-> itemName, timestamp |-> timestamp,
     durationMs |-> durationMs]

\* JSON.parse(req.body.meta || '{}'): ok is FALSE when it throws
ParseMeta(bodyMeta) ==
    CASE bodyMeta.t = "undefined" ->
            [ok |-> TRUE, itemName |-> Undef, timestamp |-> Undef,
             durationMs |-> Undef]
      [] bodyMeta.t = "garbage" ->
            [ok |-> FALSE, itemName |-> Undef, timestamp |-> Undef,
             durationMs |-> Undef]
      [] bodyMeta.t = "json" ->
            [ok |-> TRUE, itemName |-> bodyMeta.itemName,
             timestamp |-> bodyMeta.timestamp,
             durationMs |-> bodyMeta.durationMs]

FilenameError == [err |-> TRUE, filename |-> <<>>]

\* a plausible slip: the `|| 'unknown'` default is missing
StorageFilename_noDefault(bodyMeta, now, uuid) ==
    LET meta == ParseMeta(bodyMeta) IN
    IF ~meta.ok \/ meta.itemName.t # "string" THEN FilenameError
    ELSE [err |-> FALSE,
          filename |-> SurveyPrefix \o createSafeFilename(meta.itemName.s)
                         \o <<"_">> \o ReplaceColonDot(toISOString(now))
                         \o <<"_">> \o uuid \o WebmSuffix]

\* a plausible slip: the random suffix is left out of the name
StorageFilename_noUuid(bodyMeta, now, uuid) ==
    LET meta == ParseMeta(bodyMeta)
        itemName == IF Truthy(meta.itemName) THEN meta.itemName ELSE Str(Unknown)
    IN IF ~meta.ok \/ itemName.t # "string" THEN FilenameError
       ELSE [err |-> FALSE,
             filename |-> SurveyPrefix \o createSafeFilename(itemName.s)
                            \o <<"_">> \o ReplaceColonDot(toISOString(now))
                            \o WebmSuffix]

\* storage.filename: cb(null, filename), or cb(error) when the body throws
\* (JSON.parse on bad text, toLowerCase on a value that is no string)
StorageFilename(bodyMeta, now, uuid) ==
    LET meta == ParseMeta(bodyMeta) IN
    IF ~meta.ok THEN FilenameError
    ELSE LET itemName == IF Truthy(meta.itemName) THEN meta.itemName
                         ELSE Str(Unknown)
         IN IF itemName.t # "string" THEN FilenameError
            ELSE [err |-> FALSE,
                  filename |-> SurveyPrefix \o createSafeFilename(itemName.s)
                                 \o <<"_">> \o ReplaceColonDot(toISOString(now))
                                 \o <<"_">> \o uuid \o WebmSuffix]

\* uuidv4().substring(0, 8): eight hexadecimal characters
UuidPool == {Rep("a", 8), Rep("b", 8)}

----------------------------------------------------------------------------
(* Harness of the filename generator: the input is drawn in Init, the      *)
(* actions apply createSafeFilename and storage.filename to it.            *)

NameChars == <<"a", "Z", "7", " ", "\t", "_", "!", "/", ".">>
PadLens == {0, 48, 49}
SuffixSet == {<<>>, <<" ">>, <<"b">>, <<" ", "b">>, <<".", ".">>}

FreeSeqs(n) == UNION {[1..k -> {NameChars[i] : i \in 1..Len(NameChars)}] : k \in 0..n}

\* item names: a short free prefix, a padding of 'a's that brings the
\* sanitised name to the 50-character limit, and a short suffix
ItemNameInputs ==
    {pre \o Rep("a", k) \o suf :
        pre \in FreeSeqs(MaxPre), k \in PadLens, suf \in SuffixSet}

HarnessClock == [day |-> 0, ms |-> 7]

FnInputs ==
    {NoMeta, GarbageMeta, JsonMeta(Undef, Undef, Undef), JsonMeta(Num(5), Undef, Undef),
     JsonMeta(Num(0), Undef, Undef)}
    \cup {JsonMeta(Str(n), Undef, Undef) : n \in ItemNameInputs}

FnIdle == [op |-> "none"]

HarnessOff == [op |-> "off"]
\* the page is not part of this specification
PageOff == [pc |-> "off"]
\* the save-recording route is not part of this specification
SaveOff == [pc |-> "off"]

InitName ==
    /\ fnIn \in FnInputs
    /\ fnOut = FnIdle
    /\ clock = HarnessClock
    /\ files = {}
    /\ ledger = <<>>
    /\ reqs = <<>>
    /\ proc = [pc |-> "off", code |-> 0, failed |-> "none"]
    /\ page = PageOff
    /\ save = SaveOff

\* createSafeFilename applied to the item name as a pure function
CallCreateSafeFilename ==
    /\ fnOut.op = "none"
    /\ fnIn.t = "json" /\ fnIn.itemName.t = "string"
    /\ fnOut' = [op |-> "createSafeFilename",
                 safe |-> createSafeFilename(fnIn.itemName.s)]
    /\ UNCHANGED <<fnIn, serverVars, page, save>>

\* storage.filename called by multer with req.body.meta = fnIn
CallStorageFilename ==
    /\ fnOut.op = "none"
    /\ \E uuid \in UuidPool :
          fnOut' = [op |-> "storage.filename", uuid |-> uuid,
                    res |-> StorageFilename(fnIn, clock, uuid)]
    /\ UNCHANGED <<fnIn, serverVars, page, save>>


----------------------------------------------------------------------------
(* The server: requests run concurrently on one event loop; every await    *)
(* of a handler is a point where other requests may run, so every action   *)
(* below is the code between two awaits.                                   *)

ReqIds == 1..MaxReq
LookbackDays == 7
MaxDurationSec == 30
\* the day-files the model keeps: from the oldest one a removal started on
\* day 0 no longer looks at, up to the last day of the clock
Days == (0 - LookbackDays)..MaxDay

Idli == <<"I","d","l","i">>
SomeTimestamp == Str(<<"2","0","2","5">>)
ValidMeta == JsonMeta(Str(Idli), SomeTimestamp, Num(2500))

\* the file part of a multipart body
FilePart(field, mimetype, big) == [field |-> field, mimetype |-> mimetype, big |-> big]
GoodFile == FilePart("file", "audio/webm", FALSE)
NoFile == [field |-> "none", mimetype |-> "none", big |-> FALSE]

UploadInput(parts, file, metaText) == [parts |-> parts, file |-> file, metaText |-> metaText]

\* a durationMs sent as text that is no numeric literal: "40000ms"
TextDuration == Str(<<"4", "0", "0", "0", "0", "m", "s">>)

\* The upload requests of the model: a good file with each kind of metadata,
\* in both part orders, and each kind of bad file part.
UploadInputs ==
    {UploadInput(<<"file", "meta">>, GoodFile, mt) :
        mt \in {ValidMeta, GarbageMeta,
                JsonMeta(Str(Idli), SomeTimestamp, Num(30001)),
                JsonMeta(Undef, SomeTimestamp, Num(2500)),
                JsonMeta(Str(Idli), SomeTimestamp, Num(0)),
                JsonMeta(Str(Idli), SomeTimestamp, TextDuration)}}
    \cup {UploadInput(<<"meta", "file">>, GoodFile, mt) :
            mt \in {ValidMeta, GarbageMeta}}
    \cup {UploadInput(<<"file", "meta">>, f, ValidMeta) :
            f \in {FilePart("file", "audio/mpeg", FALSE),
                   FilePart("file", "audio/webm", TRUE),
                   FilePart("audio", "audio/webm", FALSE)}}
    \cup {UploadInput(<<"meta">>, NoFile, ValidMeta),
          UploadInput(<<"file">>, GoodFile, NoMeta),
          UploadInput(<<"meta", "file">>, FilePart("file", "audio/webm", TRUE),
                      GarbageMeta)}

\* filenames a client can put in a download or delete path that name no
\* artifact of the store: "../x", "a..b", "x" and "."
StrayNames == {<<".", ".", "/", "x">>, <<"a", ".", ".", "b">>, <<"x">>, <<".">>}

IdleReq == [kind |-> "idle", pc |-> "idle"]
InFlight(q) == q.pc \notin {"idle", "done"}

AbsentFile == [exists |-> FALSE, logs |-> <<>>]
LogFile(logs) == [exists |-> TRUE, logs |-> logs]

\* the disk a starting process may find: empty, or one artifact of an
\* earlier run with its ledger entry in the day-file of that day (a week
\* ago, or earlier on the day the process starts), or one whose filename
\* two day-files name (two uploads that drew the same name, one of them
\* logged after midnight)
OldUuid == Rep("9", 8)
OldDays == {0 - LookbackDays, 1 - LookbackDays, 0}
\* the day of the artifact that two day-files name (this day and the next)
TwiceDay == 1 - LookbackDays
OldName(d) == StorageFilename(ValidMeta, [day |-> d, ms |-> 0], OldUuid).filename
OldEntry(d) == [recordingId |-> 0, filename |-> OldName(d),
                itemName |-> Str(Idli), durationMs |-> Num(2500)]

\* a file of RECORDINGS_DIR: its name, the request that wrote it (0: an
\* earlier run) and its change time (stats.ctime)
OldFile(d) == [name |-> OldName(d), by |-> 0, ctime |-> [day |-> d, ms |-> 0]]
\* a file in RECORDINGS_DIR that is no recording: ".gitkeep"
OtherFile ==
    [name |-> <<".", "g", "i", "t", "k", "e", "e", "p">>, by |-> 0,
     ctime |-> [day |-> 0 - LookbackDays, ms |-> 0]]

Init ==
    /\ clock = [day |-> 0]
    /\ reqs = [r \in ReqIds |-> IdleReq]
    /\ \/ files = {OtherFile} /\ ledger = [d \in Days |-> AbsentFile]
       \/ \E d \in OldDays :
            /\ files = {OtherFile, OldFile(d)}
            /\ ledger = [x \in Days |-> IF x = d THEN LogFile(<<OldEntry(d)>>)
                                        ELSE AbsentFile]
       \/ /\ files = {OtherFile, OldFile(TwiceDay)}
          /\ ledger = [x \in Days |->
                         IF x \in {TwiceDay, TwiceDay + 1}
                         THEN LogFile(<<OldEntry(TwiceDay)>>)
                         ELSE AbsentFile]
    /\ fnIn = NoMeta
    /\ fnOut = HarnessOff
    /\ proc = [pc |-> "ensureDirs", code |-> 0, failed |-> "none"]
    /\ page = PageOff
    /\ save = SaveOff

\* the directories ensureDirs creates, in the order of its mkdir calls
StartupDirs == <<"recordings", "logs">>

\* ensureDirs with a catch block that only logs the error
EnsureDirs_logsOnly ==
    /\ proc.pc = "ensureDirs"
    /\ \E okRec, okLogs \in BOOLEAN :
          proc' = [pc |-> "started", code |-> 0,
                   failed |-> IF ~okRec THEN StartupDirs[1]
                              ELSE IF ~okLogs THEN StartupDirs[2]
                              ELSE "none"]
    /\ UNCHANGED <<clock, files, ledger, reqs, harnessVars, page, save>>

\* ensureDirs: mkdir RECORDINGS_DIR, then mkdir LOGS_DIR, both recursive (an
\* existing directory is left as it is); the first mkdir that throws ends
\* in the catch block, which logs and calls process.exit(1)
EnsureDirs ==
    /\ proc.pc = "ensureDirs"
    /\ \E okRec, okLogs \in BOOLEAN :
          proc' = IF ~okRec
                  THEN [pc |-> "exited", code |-> 1, failed |-> StartupDirs[1]]
                  ELSE IF ~okLogs
                  THEN [pc |-> "exited", code |-> 1, failed |-> StartupDirs[2]]
                  ELSE [pc |-> "started", code |-> 0, failed |-> "none"]
    /\ UNCHANGED <<clock, files, ledger, reqs, harnessVars, page, save>>

\* the server's entry point: once ensureDirs has returned, the routes are
\* mounted and the process listens
Listen ==
    /\ proc.pc = "started"
    /\ proc' = [proc EXCEPT !.pc = "listening"]
    /\ UNCHANGED <<clock, files, ledger, reqs, harnessVars, page, save>>

Exists(name) == \E f \in files : f.name = name
\* the file of that name is the one request r stored
StoredBy(name, r) == \E f \in files : f.name = name /\ f.by = r
\* fs.unlink / multer's removal
Unlink(fs, name) == {f \in fs : f.name # name}
\* a write stream opened on RECORDINGS_DIR/name (flags 'w': replaces)
WriteFile(fs, name, r, now) ==
    Unlink(fs, name) \cup {[name |-> name, by |-> r, ctime |-> now]}

\* history: another request wrote the store or the ledger while q was handled
MarkOthers(rs, r) ==
    [q \in ReqIds |-> IF q # r /\ InFlight(rs[q])
                      THEN [rs[q] EXCEPT !.dirty = TRUE] ELSE rs[q]]

Respond(q, status, error) ==
    [q EXCEPT !.pc = "done", !.status = status, !.error = error]

\* slots are taken in order (the ids are interchangeable)
CanStart(r) ==
    /\ proc.pc = "listening"
    /\ reqs[r].pc = "idle"
    /\ \A q \in ReqIds : q < r => reqs[q].pc # "idle"

\* midnight passes on the server
NextDay ==
    /\ clock.day < MaxDay
    /\ clock' = [day |-> clock.day + 1]
    /\ UNCHANGED <<files, ledger, reqs, harnessVars, proc, page, save>>

\* new Date(): the day of the clock and the millisecond read within it
Now(ms) == [day |-> clock.day, ms |-> ms]

\* uuidv4(): the r-th request draws one of the first r values of the pool
\* (the values are interchangeable, so this loses no behaviour)
UuidOf(k) == Rep(<<"a", "b", "c", "d", "e", "f">>[k], 8)
UuidChoices(r) == {UuidOf(k) : k \in 1..r}

---------------------------------------------------------------------------
(* POST /upload-recording: handleUpload (multer, then the validation), then *)
(* the route handler with writeLogEntry.                                    *)

\* GET /recording-logs for a date: the day-file's array, [] when absent
LogsOf(lg, date) == IF lg[date].exists THEN lg[date].logs ELSE <<>>
RecordingLogs(date) == LogsOf(ledger, date)

\* a plausible slip: the filter lets every type through
fileFilter_acceptAll(file) == TRUE

\* fileFilter: cb(null, true) or cb(new Error(...), false)
fileFilter(file) == file.mimetype = "audio/webm"

HasPart(parts, p) == \E i \in 1..Len(parts) : parts[i] = p
Precedes(parts, p, q) ==
    \E i, j \in 1..Len(parts) : i < j /\ parts[i] = p /\ parts[j] = q

NewUpload(inp) ==
    [kind |-> "upload", pc |-> "parsed", status |-> 0, error |-> "",
     parts |-> inp.parts, file |-> inp.file, metaText |-> inp.metaText,
     message |-> "", body |-> Undef,
     bodyMeta |-> NoMeta, reqFile |-> Undef, err |-> "",
     logDay |-> 0, logs |-> <<>>,
     \* history
     stored |-> Undef, wrote |-> FALSE, namedAt |-> [day |-> 0, ms |-> 0],
     uuid |-> <<>>, dirty |-> FALSE, startDay |-> clock.day,
     ledger0 |-> ledger, listToday |-> <<>>, listLogDay |-> <<>>,
     saveFailed |-> FALSE, readFailed |-> FALSE, writeFailed |-> FALSE,
     existedAtRead |-> FALSE,
     storedAfter |-> FALSE]

\* The request arrives and multer reads its parts in order (the parts touch
\* nothing but the request until the file is written, so they are one
\* step): a text field is appended to req.body; for the file part
\* .single('file') refuses another field name, then fileFilter, then
\* storage.filename with req.body as it is by then, then the write stream
\* to disk; a file over limits.fileSize is cut off while it is written.
\* The write stream may fail (saved = FALSE): the storage engine then calls
\* back with the stream's error and nothing is stored.
UploadStart(r) ==
    /\ CanStart(r)
    /\ \E inp \in UploadInputs, uuid \in UuidChoices(r), ms \in 0..MaxMs,
          saved \in BOOLEAN :
         LET q == NewUpload(inp)
             bodyAtFile == IF Precedes(inp.parts, "meta", "file")
                           THEN inp.metaText ELSE NoMeta
             bodyAtEnd == IF HasPart(inp.parts, "meta") THEN inp.metaText
                          ELSE NoMeta
             gen == StorageFilename(bodyAtFile, Now(ms), uuid)
         IN
         IF ~HasPart(inp.parts, "file") THEN
            /\ saved
            /\ reqs' = [reqs EXCEPT ![r] = [q EXCEPT !.bodyMeta = bodyAtEnd]]
            /\ UNCHANGED files
         ELSE IF inp.file.field # "file" THEN
            /\ saved
            /\ reqs' = [reqs EXCEPT ![r] =
                  [q EXCEPT !.pc = "abort", !.err = "LIMIT_UNEXPECTED_FILE",
                            !.bodyMeta = bodyAtFile]]
            /\ UNCHANGED files
         ELSE IF ~fileFilter(inp.file) THEN
            /\ saved
            /\ reqs' = [reqs EXCEPT ![r] =
                  [q EXCEPT !.pc = "abort",
                            !.err = "Only audio/webm files are allowed",
                            !.bodyMeta = bodyAtFile]]
            /\ UNCHANGED files
         ELSE IF gen.err THEN
            /\ saved
            /\ reqs' = [reqs EXCEPT ![r] =
                  [q EXCEPT !.pc = "abort", !.err = "filename error",
                            !.bodyMeta = bodyAtFile]]
            /\ UNCHANGED files
         ELSE IF ~saved THEN
            /\ reqs' = [reqs EXCEPT ![r] =
                  [q EXCEPT !.pc = "abort", !.err = "write error",
                            !.bodyMeta = bodyAtFile, !.saveFailed = TRUE]]
            /\ UNCHANGED files
         ELSE
            /\ files' = WriteFile(files, gen.filename, r, Now(ms))
            /\ reqs' = [MarkOthers(reqs, r) EXCEPT ![r] =
                  IF inp.file.big
                  THEN [q EXCEPT !.pc = "abort", !.err = "LIMIT_FILE_SIZE",
                                 !.bodyMeta = bodyAtFile,
                                 !.stored = Str(gen.filename), !.wrote = TRUE,
                                 !.namedAt = Now(ms), !.uuid = uuid]
                  ELSE [q EXCEPT !.bodyMeta = bodyAtEnd,
                                 !.reqFile = Str(gen.filename),
                                 !.stored = Str(gen.filename), !.wrote = TRUE,
                                 !.namedAt = Now(ms), !.uuid = uuid]]
    /\ UNCHANGED <<clock, ledger, harnessVars, proc, page, save>>

\* handleUpload's callback with an error: the status and `error` per code
UploadErrorResponse(q) ==
    CASE q.err = "LIMIT_FILE_SIZE" ->
            [Respond(q, 413, "File too large") EXCEPT
                !.message = "Maximum file size is 10MB"]
      [] q.err = "LIMIT_FILE_COUNT" ->
            [Respond(q, 400, "Too many files") EXCEPT
                !.message = "Only one file per upload is allowed"]
      [] q.err = "LIMIT_UNEXPECTED_FILE" ->
            [Respond(q, 400, "Unexpected file field") EXCEPT
                !.message = "File must be uploaded in the \"file\" field"]
      [] OTHER ->
            [Respond(q, 400, "Upload failed") EXCEPT !.message = q.err]

\* multer gives up: it removes what it stored for this request and calls
\* handleUpload's callback with the error
MulterAbort(r) ==
    LET q == reqs[r] IN
    /\ q.kind = "upload" /\ q.pc = "abort"
    /\ IF q.stored.t = "string"
       THEN /\ files' = Unlink(files, q.stored.s)
            /\ reqs' = [MarkOthers(reqs, r) EXCEPT ![r] = UploadErrorResponse(q)]
       ELSE /\ UNCHANGED files
            /\ reqs' = [reqs EXCEPT ![r] = UploadErrorResponse(q)]
    /\ UNCHANGED <<clock, ledger, harnessVars, proc, page, save>>

\* the value of a string of decimal digits
RECURSIVE DigitsValue(_)
DigitsValue(s) ==
    IF s = <<>> THEN 0
    ELSE 10 * DigitsValue(SubSeq(s, 1, Len(s) - 1))
           + (CHOOSE d \in 0..9 : DigitSeq[d + 1] = s[Len(s)])

NaN == [t |-> "NaN"]

\* JavaScript's ToNumber, for the values the model sends: a number, a string
\* of decimal digits, a string that is no numeric literal, undefined
ToNumber(v) ==
    CASE v.t = "number" -> v
      [] v.t = "string" ->
            IF \A i \in 1..Len(v.s) : v.s[i] \in DigitSet
            THEN Num(DigitsValue(v.s)) ELSE NaN
      [] OTHER -> NaN

\* v > n in JavaScript: false when v converts to NaN
GreaterThan(v, n) == ToNumber(v).t = "number" /\ ToNumber(v).n > n

\* handleUpload's callback without an error: "" when next() is called, else
\* the `error` of the 400 response
ValidateUpload(q) ==
    LET meta == ParseMeta(q.bodyMeta) IN
    IF q.reqFile.t = "undefined" THEN "No file uploaded"
    ELSE IF ~meta.ok THEN "Invalid metadata"
    ELSE IF ~Truthy(meta.itemName) \/ ~Truthy(meta.timestamp)
                \/ ~Truthy(meta.durationMs) THEN "Invalid metadata"
    ELSE IF GreaterThan(meta.durationMs, MaxDurationSec * 1000)
         THEN "Recording too long"
    ELSE ""

\* the `message` that goes with the `error` of ValidateUpload
ValidateMessage(q) ==
    LET meta == ParseMeta(q.bodyMeta) IN
    IF q.reqFile.t = "undefined"
    THEN "Please provide an audio file in the \"file\" field"
    ELSE IF ~meta.ok THEN "Metadata must be valid JSON"
    ELSE IF ~Truthy(meta.itemName) \/ ~Truthy(meta.timestamp)
                \/ ~Truthy(meta.durationMs)
         THEN "Missing required fields: itemName, timestamp, durationMs"
    ELSE IF GreaterThan(meta.durationMs, MaxDurationSec * 1000)
         THEN "Maximum duration is 30 seconds"
    ELSE ""

\* multer is done with the body: the callback validates and either answers
\* 400 or calls next(); the route handler then builds the log entry and
\* writeLogEntry resolves today's day-file before its first await
MulterDone(r) ==
    LET q == reqs[r]
        verdict == ValidateUpload(q) IN
    /\ q.kind = "upload" /\ q.pc = "parsed"
    /\ reqs' = [reqs EXCEPT ![r] =
                  IF verdict # ""
                  THEN [Respond(q, 400, verdict) EXCEPT
                            !.message = ValidateMessage(q)]
                  ELSE [q EXCEPT !.pc = "logRead", !.logDay = clock.day]]
    /\ UNCHANGED <<clock, files, ledger, harnessVars, proc, page, save>>

\* a plausible slip: a day-file that cannot be read aborts the append
AppendRead_abortsOnError(r) ==
    LET q == reqs[r]
        seen == [q EXCEPT !.existedAtRead = ledger[q.logDay].exists] IN
    /\ q.kind = "upload" /\ q.pc = "logRead"
    /\ \E ok \in BOOLEAN :
         /\ ~ok => ledger[q.logDay].exists
         /\ reqs' = [reqs EXCEPT ![r] =
                  IF ok
                  THEN [seen EXCEPT !.pc = "logWrite",
                                    !.logs = RecordingLogs(q.logDay)]
                  ELSE [Respond(seen, 201, "") EXCEPT
                          !.readFailed = TRUE,
                          !.body = [recordingId |-> r,
                                    filename |-> q.reqFile.s,
                                    url |-> <<>>],
                          !.storedAfter = StoredBy(q.reqFile.s, r),
                          !.listToday = RecordingLogs(clock.day),
                          !.listLogDay = RecordingLogs(q.logDay)]]
    /\ UNCHANGED <<clock, files, ledger, harnessVars, proc, page, save>>

\* writeLogEntry: await fs.readFile and JSON.parse; ENOENT leaves logs = [],
\* and so does any other failure of the two on an existing day-file
\* (ok = FALSE), which is only logged as a warning
AppendRead(r) ==
    LET q == reqs[r]
        seen == [q EXCEPT !.pc = "logWrite",
                          !.existedAtRead = ledger[q.logDay].exists] IN
    /\ q.kind = "upload" /\ q.pc = "logRead"
    /\ \E ok \in BOOLEAN :
         /\ ~ok => ledger[q.logDay].exists
         /\ reqs' = [reqs EXCEPT ![r] =
                  IF ok
                  THEN [seen EXCEPT !.logs = RecordingLogs(q.logDay)]
                  ELSE [seen EXCEPT !.logs = <<>>, !.readFailed = TRUE]]
    /\ UNCHANGED <<clock, files, ledger, harnessVars, proc, page, save>>

\* a plausible slip: the entry names the client's file (file.originalname)
LogEntry_originalName(r, q) ==
    LET meta == ParseMeta(q.bodyMeta) IN
    [recordingId |-> r,
     filename |-> <<"r","e","c","o","r","d","i","n","g",".","w","e","b","m">>,
     itemName |-> meta.itemName, durationMs |-> meta.durationMs]

\* the log entry of the route handler (the fields the model follows)
LogEntry(r, q) ==
    LET meta == ParseMeta(q.bodyMeta) IN
    [recordingId |-> r, filename |-> q.reqFile.s,
     itemName |-> meta.itemName, durationMs |-> meta.durationMs]

\* String.prototype.startsWith
StartsWith(s, t) == Len(s) >= Len(t) /\ SubSeq(s, 1, Len(t)) = t

DownloadPrefix == <<"/","a","p","i","/","d","o","w","n","l","o","a","d","/">>

\* a plausible slip: the body names the client's file (file.originalname)
UploadResponseBody_originalName(r, q) ==
    [recordingId |-> r,
     filename |-> <<"r","e","c","o","r","d","i","n","g",".","w","e","b","m">>,
     url |-> DownloadPrefix \o q.reqFile.s]

\* the body of the 201 response
UploadResponseBody(r, q) ==
    [recordingId |-> r, filename |-> q.reqFile.s,
     url |-> DownloadPrefix \o q.reqFile.s]

\* a plausible slip: a failed write of the day-file rolls the upload back
AppendWrite_rollsBack(r) ==
    LET q == reqs[r]
        written == [ledger EXCEPT ![q.logDay] =
                        LogFile(Append(q.logs, LogEntry(r, q)))] IN
    /\ q.kind = "upload" /\ q.pc = "logWrite"
    /\ \E ok \in BOOLEAN :
         IF ok
         THEN /\ ledger' = written
              /\ UNCHANGED files
              /\ reqs' = [MarkOthers(reqs, r) EXCEPT ![r] =
                    [Respond(q, 201, "") EXCEPT
                        !.body = UploadResponseBody(r, q),
                        !.storedAfter = StoredBy(q.reqFile.s, r),
                        !.listToday = LogsOf(written, clock.day),
                        !.listLogDay = LogsOf(written, q.logDay)]]
         ELSE /\ UNCHANGED ledger
              /\ files' = Unlink(files, q.reqFile.s)
              /\ reqs' = [MarkOthers(reqs, r) EXCEPT ![r] =
                    [Respond(q, 500, "Upload processing failed") EXCEPT
                        !.writeFailed = TRUE,
                        !.storedAfter = FALSE,
                        !.listToday = RecordingLogs(clock.day),
                        !.listLogDay = RecordingLogs(q.logDay)]]
    /\ UNCHANGED <<clock, harnessVars, proc, page, save>>

\* a plausible slip: the day-file is read again when it is written, which
\* makes the append one step
AppendWrite_rereads(r) ==
    LET q == reqs[r]
        written == [ledger EXCEPT ![q.logDay] =
                        LogFile(Append(RecordingLogs(q.logDay), LogEntry(r, q)))] IN
    /\ q.kind = "upload" /\ q.pc = "logWrite"
    /\ ledger' = written
    /\ reqs' = [MarkOthers(reqs, r) EXCEPT ![r] =
                  [Respond(q, 201, "") EXCEPT
                      !.body = UploadResponseBody(r, q),
                      !.storedAfter = StoredBy(q.reqFile.s, r),
                      !.listToday = LogsOf(written, clock.day),
                      !.listLogDay = LogsOf(written, q.logDay)]]
    /\ UNCHANGED <<clock, files, harnessVars, proc, page, save>>

\* writeLogEntry: logs.push(entry); await fs.writeFile, whose failure
\* (ok = FALSE) is caught and logged; then the route handler answers 201
\* with the filename
\* (history: listToday and listLogDay are what GET /recording-logs would
\* return right after the response, for today and for the day-file written;
\* storedAfter tells whether the store then holds this request's file)
AppendWrite(r) ==
    LET q == reqs[r]
        written == [ledger EXCEPT ![q.logDay] =
                        LogFile(Append(q.logs, LogEntry(r, q)))] IN
    /\ q.kind = "upload" /\ q.pc = "logWrite"
    /\ \E ok \in BOOLEAN :
         IF ok
         THEN /\ ledger' = written
              /\ reqs' = [MarkOthers(reqs, r) EXCEPT ![r] =
                    [Respond(q, 201, "") EXCEPT
                        !.body = UploadResponseBody(r, q),
                        !.storedAfter = StoredBy(q.reqFile.s, r),
                        !.listToday = LogsOf(written, clock.day),
                        !.listLogDay = LogsOf(written, q.logDay)]]
         ELSE /\ UNCHANGED ledger
              /\ reqs' = [reqs EXCEPT ![r] =
                    [Respond(q, 201, "") EXCEPT
                        !.body = UploadResponseBody(r, q),
                        !.writeFailed = TRUE,
                        !.storedAfter = StoredBy(q.reqFile.s, r),
                        !.listToday = RecordingLogs(clock.day),
                        !.listLogDay = RecordingLogs(q.logDay)]]
    /\ UNCHANGED <<clock, files, harnessVars, proc, page, save>>

---------------------------------------------------------------------------
(* GET /download/:filename and DELETE /recordings/:filename, with          *)
(* removeLogEntry.                                                         *)

\* String.prototype.includes
Includes(s, t) ==
    \E i \in 0..(Len(s) - Len(t)) : SubSeq(s, i + 1, i + Len(t)) = t

\* req.params.filename of GET /api/download/:filename for a request path
\* (Undef when the route does not match: :filename is one path segment)
DownloadParam(path) ==
    IF StartsWith(path, DownloadPrefix)
    THEN LET rest == SubSeq(path, Len(DownloadPrefix) + 1, Len(path)) IN
         IF rest = <<>> \/ Includes(rest, <<"/">>) THEN Undef ELSE Str(rest)
    ELSE Undef

\* a plausible slip: only the path separator is looked for
UnsafeFilename_separatorOnly(filename) ==
    filename = <<>> \/ Includes(filename, <<"/">>)

\* !filename || filename.includes('..') || filename.includes('/')
UnsafeFilename(filename) ==
    \/ filename = <<>>
    \/ Includes(filename, <<".", ".">>)
    \/ Includes(filename, <<"/">>)

\* the segments of a path between its separators
RECURSIVE Segments(_)
Segments(s) ==
    IF ~Includes(s, <<"/">>) THEN <<s>>
    ELSE LET i == CHOOSE k \in 1..Len(s) :
                     s[k] = "/" /\ \A j \in 1..(k - 1) : s[j] # "/"
         IN  <<SubSeq(s, 1, i - 1)>> \o Segments(SubSeq(s, i + 1, Len(s)))

\* path.join's normalisation of segments below a directory: '' and '.' are
\* dropped, '..' removes the segment before it or climbs above the directory
RECURSIVE Normalize(_, _)
Normalize(segs, acc) ==
    IF segs = <<>> THEN acc
    ELSE LET h == Head(segs) IN
         Normalize(Tail(segs),
            IF h = <<>> \/ h = <<".">> THEN acc
            ELSE IF h = <<".", ".">>
                 THEN IF acc.segs # <<>>
                      THEN [acc EXCEPT !.segs = SubSeq(@, 1, Len(@) - 1)]
                      ELSE [acc EXCEPT !.up = @ + 1]
            ELSE [acc EXCEPT !.segs = Append(@, h)])

\* join(RECORDINGS_DIR, filename), relative to RECORDINGS_DIR: how many
\* levels it climbs above the directory and the segments below
FilePath(filename) == Normalize(Segments(filename), [up |-> 0, segs |-> <<>>])

\* the path is RECORDINGS_DIR itself
IsStoreDir(path) == path.up = 0 /\ path.segs = <<>>

\* fs.access(filePath) resolves: the directory itself, or a file in it
Accessible(filename) ==
    \/ IsStoreDir(FilePath(filename))
    \/ /\ FilePath(filename) = [up |-> 0, segs |-> <<filename>>]
       /\ \E f \in files : f.name = filename

EntryNames(logs) == {logs[i].filename : i \in 1..Len(logs)}

DaysNaming(lg, filename) == {d \in Days : filename \in EntryNames(lg[d].logs)}

\* GET /recordings without filters: the names in the store that end in .webm
EndsWith(s, t) == Len(s) >= Len(t) /\ SubSeq(s, Len(s) - Len(t) + 1, Len(s)) = t
RecordingsList == {f.name : f \in {g \in files : EndsWith(g.name, WebmSuffix)}}

\* the filenames a client may ask for: what the listing of the store or the
\* ledger names, and the stray ones
RequestNames ==
    RecordingsList
        \cup UNION {EntryNames(ledger[d].logs) : d \in Days}
        \cup StrayNames

FileRequest(kind, filename) ==
    [kind |-> kind, pc |-> "access", status |-> 0, error |-> "",
     filename |-> filename, rmDay |-> 0, i |-> 0, filtered |-> <<>>,
     \* history
     touchedFs |-> FALSE, found |-> FALSE, rmInvoked |-> FALSE,
     wroteLedger |-> FALSE, daysWith |-> {}, dirty |-> FALSE,
     goneAfter |-> FALSE, daysAfter |-> {}, ledger0 |-> <<>>, ledger1 |-> <<>>]

\* The download handler up to the answer of fs.access (nothing of the
\* request is visible before it): the filename check, then the access
DownloadBegin(filename) ==
    LET q == FileRequest("download", filename) IN
    IF UnsafeFilename(filename) THEN Respond(q, 400, "Invalid filename")
    ELSE IF Accessible(filename)
         THEN [q EXCEPT !.pc = "open", !.touchedFs = TRUE, !.found = TRUE]
    ELSE Respond([q EXCEPT !.touchedFs = TRUE], 404, "File not found")

DownloadStart(r) ==
    /\ CanStart(r)
    /\ \E fn \in RequestNames :
         reqs' = [reqs EXCEPT ![r] = DownloadBegin(fn)]
    /\ UNCHANGED <<clock, files, ledger, harnessVars, proc, page, save>>

\* await fs.open(filePath, 'r'), then the stream is piped to the response;
\* a file that has gone since the check makes fs.open throw (catch: 500)
DownloadOpen(r) ==
    LET q == reqs[r] IN
    /\ q.kind = "download" /\ q.pc = "open"
    /\ reqs' = [reqs EXCEPT ![r] =
                  IF Exists(q.filename) THEN Respond(q, 200, "")
                  ELSE Respond(q, 500, "Download failed")]
    /\ UNCHANGED <<clock, files, ledger, harnessVars, proc, page, save>>

\* a plausible slip: the ledger is cleaned even when the artifact is gone
DeleteBegin_cleansLedgerAnyway(filename) ==
    LET q == FileRequest("delete", filename) IN
    IF UnsafeFilename(filename) THEN Respond(q, 400, "Invalid filename")
    ELSE IF Accessible(filename)
         THEN [q EXCEPT !.pc = "unlink", !.touchedFs = TRUE, !.found = TRUE]
    ELSE [q EXCEPT !.pc = "rmRead", !.rmDay = clock.day, !.touchedFs = TRUE,
                   !.rmInvoked = TRUE]

\* The delete handler up to the answer of fs.access: the filename check,
\* then the access (404 when it rejects)
DeleteBegin(filename) ==
    LET q == FileRequest("delete", filename) IN
    IF UnsafeFilename(filename) THEN Respond(q, 400, "Invalid filename")
    ELSE IF Accessible(filename)
         THEN [q EXCEPT !.pc = "unlink", !.touchedFs = TRUE, !.found = TRUE]
    ELSE Respond([q EXCEPT !.touchedFs = TRUE], 404, "File not found")

DeleteStart(r) ==
    /\ CanStart(r)
    /\ \E fn \in RequestNames :
         reqs' = [reqs EXCEPT ![r] = DeleteBegin(fn)]
    /\ UNCHANGED <<clock, files, ledger, harnessVars, proc, page, save>>

\* await fs.unlink(filePath) (ENOENT goes to the catch: 500); then
\* removeLogEntry computes its dates and reaches its first readFile
DeleteUnlink(r) ==
    LET q == reqs[r] IN
    /\ q.kind = "delete" /\ q.pc = "unlink"
    /\ IF Exists(q.filename)
       THEN /\ files' = Unlink(files, q.filename)
            /\ reqs' = [MarkOthers(reqs, r) EXCEPT ![r] =
                  [q EXCEPT !.pc = "rmRead", !.rmDay = clock.day, !.i = 0,
                            !.rmInvoked = TRUE, !.ledger0 = ledger,
                            !.daysWith = DaysNaming(ledger, q.filename)]]
       ELSE /\ UNCHANGED files
            /\ reqs' = [reqs EXCEPT ![r] = Respond(q, 500, "Delete failed")]
    /\ UNCHANGED <<clock, ledger, harnessVars, proc, page, save>>

\* a plausible slip: the comparison is the wrong way round
FilterOut_keepsMatch(logs, filename) ==
    SelectSeq(logs, LAMBDA e : e.filename = filename)

\* logs.filter(log => log.filename !== filename)
FilterOut(logs, filename) == SelectSeq(logs, LAMBDA e : e.filename # filename)

\* removeLogEntry has returned: the handler answers 200 (history: goneAfter
\* and daysAfter are what a download and the day-files show right after it)
DeleteDone(q, lg) ==
    [Respond(q, 200, "") EXCEPT !.goneAfter = ~Exists(q.filename),
                                !.daysAfter = DaysNaming(lg, q.filename),
                                !.ledger1 = lg]

\* removeLogEntry gives the next date a turn, or returns after the last one
NextDate(q) ==
    IF q.i + 1 < LookbackDays THEN [q EXCEPT !.i = @ + 1]
    ELSE DeleteDone(q, ledger)

\* removeLogEntry: await fs.readFile of the day-file of `i` days ago; ENOENT
\* and a file without the filename go on to the next date
RemoveRead(r) ==
    LET q == reqs[r]
        file == ledger[q.rmDay - q.i]
        filtered == FilterOut(file.logs, q.filename) IN
    /\ q.kind = "delete" /\ q.pc = "rmRead"
    /\ reqs' = [reqs EXCEPT ![r] =
                  IF file.exists /\ Len(filtered) # Len(file.logs)
                  THEN [q EXCEPT !.pc = "rmWrite", !.filtered = filtered]
                  ELSE NextDate(q)]
    /\ UNCHANGED <<clock, files, ledger, harnessVars, proc, page, save>>

\* a plausible slip: the `break` after the rewrite is missing
RemoveWrite_noBreak(r) ==
    LET q == reqs[r]
        written == [ledger EXCEPT ![q.rmDay - q.i] = LogFile(q.filtered)] IN
    /\ q.kind = "delete" /\ q.pc = "rmWrite"
    /\ ledger' = written
    /\ reqs' = [MarkOthers(reqs, r) EXCEPT ![r] =
                  IF q.i + 1 < LookbackDays
                  THEN [q EXCEPT !.pc = "rmRead", !.i = @ + 1,
                                 !.wroteLedger = TRUE]
                  ELSE DeleteDone([q EXCEPT !.wroteLedger = TRUE], written)]
    /\ UNCHANGED <<clock, files, harnessVars, proc, page, save>>

\* removeLogEntry: await fs.writeFile of the filtered array, then break
RemoveWrite(r) ==
    LET q == reqs[r]
        written == [ledger EXCEPT ![q.rmDay - q.i] = LogFile(q.filtered)] IN
    /\ q.kind = "delete" /\ q.pc = "rmWrite"
    /\ ledger' = written
    /\ reqs' = [MarkOthers(reqs, r) EXCEPT ![r] =
                  DeleteDone([q EXCEPT !.wroteLedger = TRUE], written)]
    /\ UNCHANGED <<clock, files, harnessVars, proc, page, save>>

\* a plausible slip: a date without a day-file is answered as not found
ListLogs_absentIsNotFound(r) ==
    /\ CanStart(r)
    /\ \E date \in {clock.day, clock.day - 1} :
         reqs' = [reqs EXCEPT ![r] =
              IF ledger[date].exists
              THEN [kind |-> "logs", pc |-> "done", status |-> 200,
                    error |-> "", date |-> date, body |-> RecordingLogs(date),
                    dirty |-> FALSE, fileThen |-> ledger[date]]
              ELSE [kind |-> "logs", pc |-> "done", status |-> 404,
                    error |-> "Not found", date |-> date,
                    body |-> <<>>, dirty |-> FALSE, fileThen |-> ledger[date]]]
    /\ UNCHANGED <<clock, files, ledger, harnessVars, proc, page, save>>

\* GET /recording-logs?date=: one readFile and JSON.parse, then the array
\* with 200; [] with 200 on ENOENT; any other failure of the two on an
\* existing day-file (ok = FALSE) is thrown to the outer catch: 500
\* (history: fileThen is the day-file as it was when it was read)
ListLogs(r) ==
    /\ CanStart(r)
    /\ \E date \in {clock.day, clock.day - 1}, ok \in BOOLEAN :
         /\ ~ok => ledger[date].exists
         /\ reqs' = [reqs EXCEPT ![r] =
              IF ok
              THEN [kind |-> "logs", pc |-> "done", status |-> 200,
                    error |-> "", date |-> date, body |-> RecordingLogs(date),
                    dirty |-> FALSE, fileThen |-> ledger[date]]
              ELSE [kind |-> "logs", pc |-> "done", status |-> 500,
                    error |-> "Failed to retrieve logs", date |-> date,
                    body |-> <<>>, dirty |-> FALSE, fileThen |-> ledger[date]]]
    /\ UNCHANGED <<clock, files, ledger, harnessVars, proc, page, save>>

---------------------------------------------------------------------------
(* GET /recordings and GET /health.                                        *)

\* file.split('_')[1], or 'unknown' when there is no second part
RECURSIVE UpToUnderscore(_)
UpToUnderscore(s) ==
    IF s = <<>> \/ Head(s) = "_" THEN <<>>
    ELSE <<Head(s)>> \o UpToUnderscore(Tail(s))

RECURSIVE AfterUnderscore(_)
AfterUnderscore(s) ==
    IF s = <<>> THEN <<>>
    ELSE IF Head(s) = "_" THEN Tail(s) ELSE AfterUnderscore(Tail(s))

RecoveredItemName(file) ==
    IF \E i \in 1..Len(file) : file[i] = "_"
    THEN UpToUnderscore(AfterUnderscore(file)) ELSE Unknown

\* itemName.replace(/_/g, ' ')
UnderscoresToSpaces(s) == [i \in 1..Len(s) |-> IF s[i] = "_" THEN " " ELSE s[i]]

\* the element pushed for a file whose stat succeeded
RecordingInfo(f) ==
    [filename |-> f.name, createdAt |-> f.ctime,
     itemName |-> UnderscoresToSpaces(RecoveredItemName(f.name))]

\* r.itemName.toLowerCase().includes(item.toLowerCase()), applied when the
\* query has a non-empty item
ItemMatches(rec, item) ==
    ~Truthy(item) \/ Includes(toLowerCase(rec.itemName), toLowerCase(item.s))

\* GET /recordings applied to a file that storage.filename has just named:
\* the element it pushes for it
CallRecordingInfo ==
    /\ fnOut.op = "storage.filename" /\ ~fnOut.res.err
    /\ LET name == fnOut.res.filename
           rec == RecordingInfo([name |-> name, by |-> 0, ctime |-> clock])
       IN  fnOut' = [op |-> "recordings", filename |-> name, rec |-> rec]
    /\ UNCHANGED <<fnIn, serverVars, page, save>>

NextName == CallCreateSafeFilename \/ CallStorageFilename \/ CallRecordingInfo

SpecName == InitName /\ [][NextName]_vars

\* dayjs(r.createdAt).format('YYYY-MM-DD') === dayjs(date).format('YYYY-MM-DD'),
\* applied when the query has a date
DateMatches(rec, date) ==
    date.t = "undefined" \/ FormatDate(rec.createdAt.day) = FormatDate(date.n)

\* new Date(b.createdAt) - new Date(a.createdAt) <= 0: a is not older than b
NotOlder(a, b) ==
    a.createdAt.day > b.createdAt.day
        \/ (a.createdAt.day = b.createdAt.day /\ a.createdAt.ms >= b.createdAt.ms)

\* a plausible slip: the comparator has its operands the other way round
InsertSorted_oldestFirst(rec, sorted) ==
    LET before == {i \in 1..Len(sorted) : NotOlder(rec, sorted[i])}
        k == Cardinality(before) IN
    SubSeq(sorted, 1, k) \o <<rec>> \o SubSeq(sorted, k + 1, Len(sorted))

\* Array.prototype.sort with that comparator is stable: an element goes
\* behind the ones that are not older than it
InsertSorted(rec, sorted) ==
    LET k == IF \E i \in 1..Len(sorted) : ~NotOlder(sorted[i], rec)
             THEN (CHOOSE i \in 1..Len(sorted) :
                      /\ ~NotOlder(sorted[i], rec)
                      /\ \A j \in 1..(i - 1) : NotOlder(sorted[j], rec)) - 1
             ELSE Len(sorted) IN
    SubSeq(sorted, 1, k) \o <<rec>> \o SubSeq(sorted, k + 1, Len(sorted))

RECURSIVE SortNewestFirst(_)
SortNewestFirst(recs) ==
    IF recs = <<>> THEN <<>>
    ELSE InsertSorted(recs[Len(recs)],
                      SortNewestFirst(SubSeq(recs, 1, Len(recs) - 1)))

\* the filters and the sort, then res.json(recordings)
ListResponse(q, recs) ==
    LET kept == SelectSeq(recs, LAMBDA x : ItemMatches(x, q.item) /\ DateMatches(x, q.date))
    IN [q EXCEPT !.pc = "done", !.status = 200, !.body = SortNewestFirst(kept)]

\* the orders in which fs.readdir may return a set of names
Orderings(S) ==
    {f \in [1..Cardinality(S) -> S] : \A i, j \in 1..Cardinality(S) : f[i] = f[j] => i = j}

\* the queries of the model: no item or "IDL", no date or today
ListQueries == {[item |-> it, date |-> dt] :
                  it \in {Undef, Str(<<"I", "D", "L">>)},
                  dt \in {Undef, Num(clock.day)}}

\* GET /recordings: await fs.readdir, the .webm names are kept; an empty
\* list is answered at once
\* (history: filesThen is the store as it was when it was read)
ListStart(r) ==
    /\ CanStart(r)
    /\ \E qy \in ListQueries, names \in Orderings(RecordingsList) :
         LET q == [kind |-> "list", pc |-> "stat", status |-> 0, error |-> "",
                   item |-> qy.item, date |-> qy.date, names |-> names,
                   k |-> 1, recs |-> <<>>, body |-> <<>>, dirty |-> FALSE,
                   filesThen |-> files]
         IN reqs' = [reqs EXCEPT ![r] =
                        IF names = <<>> THEN ListResponse(q, <<>>) ELSE q]
    /\ UNCHANGED <<clock, files, ledger, harnessVars, proc, page, save>>

\* GET /recordings: await fs.stat of the next name; a file that has gone
\* is left out with a warning; after the last one the list is filtered,
\* sorted and sent
ListStat(r) ==
    LET q == reqs[r]
        name == q.names[q.k]
        recs == IF Exists(name)
                THEN Append(q.recs,
                            RecordingInfo(CHOOSE f \in files : f.name = name))
                ELSE q.recs IN
    /\ q.kind = "list" /\ q.pc = "stat"
    /\ reqs' = [reqs EXCEPT ![r] =
                  IF q.k < Len(q.names)
                  THEN [q EXCEPT !.k = @ + 1, !.recs = recs]
                  ELSE ListResponse([q EXCEPT !.recs = recs], recs)]
    /\ UNCHANGED <<clock, files, ledger, harnessVars, proc, page, save>>

\* files.filter(file => file.endsWith('.webm')).length of GET /health
WebmCount(names) == Cardinality({n \in names : EndsWith(n, WebmSuffix)})

\* a plausible slip: every directory entry is counted
Health_countsAll(r) ==
    /\ CanStart(r)
    /\ \E ok \in BOOLEAN :
         LET q == [kind |-> "health", pc |-> "done", status |-> 0,
                   error |-> "", recordingsCount |-> 0, dirty |-> FALSE,
                   filesThen |-> files]
         IN reqs' = [reqs EXCEPT ![r] =
                IF ok
                THEN [Respond(q, 200, "") EXCEPT
                        !.recordingsCount = Cardinality({f.name : f \in files})]
                ELSE Respond(q, 500, "Health check failed")]
    /\ UNCHANGED <<clock, files, ledger, harnessVars, proc, page, save>>

\* GET /health: await fs.readdir(RECORDINGS_DIR) and the count of the names
\* that end in .webm; a readdir that rejects is answered 500
\* (history: filesThen is the store as it was when it was read)
Health(r) ==
    /\ CanStart(r)
    /\ \E ok \in BOOLEAN :
         LET q == [kind |-> "health", pc |-> "done", status |-> 0,
                   error |-> "", recordingsCount |-> 0, dirty |-> FALSE,
                   filesThen |-> files]
         IN reqs' = [reqs EXCEPT ![r] =
                IF ok
                THEN [Respond(q, 200, "") EXCEPT
                        !.recordingsCount = WebmCount({f.name : f \in files})]
                ELSE Respond(q, 500, "Health check failed")]
    /\ UNCHANGED <<clock, files, ledger, harnessVars, proc, page, save>>

Next ==
    \/ EnsureDirs
    \/ Listen
    \/ NextDay
    \/ \E r \in ReqIds :
         \/ UploadStart(r)
         \/ MulterAbort(r)
         \/ MulterDone(r)
         \/ AppendRead(r)
         \/ AppendWrite(r)
         \/ DownloadStart(r)
         \/ DownloadOpen(r)
         \/ DeleteStart(r)
         \/ DeleteUnlink(r)
         \/ RemoveRead(r)
         \/ RemoveWrite(r)
         \/ ListLogs(r)
         \/ ListStart(r)
         \/ ListStat(r)
         \/ Health(r)

Spec == Init /\ [][Next]_vars

----------------------------------------------------------------------------
(* The page: one ItemRow with its useRecorder hook, and the Index page's    *)
(* session count. Time is in milliseconds; timers fire when they are due.   *)

\* MAX_DURATION_MS of useRecorder
MAX_DURATION_MS == 30 * 1000
\* the step of the page's clock, in milliseconds
TickMs == 10000
\* how far the page's clock runs, in steps
MaxTicks == 5
\* startRecording calls in the life of the row
MaxStarts == 2
\* the count localStorage may hold for today's key when the page loads
MaxStored == 1
\* how late a timer callback may run, in milliseconds
LagMs == 4

\* blob state of the hook: null, or a Blob built from the chunks
NoBlob == [t |-> "null"]
BlobOf(chunks) == [t |-> "blob", data |-> chunks]
\* a chunk passed to ondataavailable: the recorder and the time of delivery
Chunk(k, at) == [mr |-> k, at |-> at]
\* localStorage.getItem(key): null or the stored string (a count)
NoItem == [t |-> "null"]
Item(n) == [t |-> "string", n |-> n]

InitPage ==
    /\ \E stored \in {NoItem} \cup {Item(n) : n \in 0..MaxStored},
          webm \in BOOLEAN :
         page = [pc |-> "loaded",
                 \* Index
                 mounted |-> FALSE, uploadedCount |-> 0, storage |-> stored,
                 \* useRecorder state
                 state |-> "idle", blob |-> NoBlob, durationMs |-> 0,
                 error |-> FALSE,
                 \* useRecorder refs
                 cur |-> 0, chunks |-> <<>>, startTime |-> 0, timerRef |-> 0,
                 \* the browser: MediaRecorder.isTypeSupported('audio/webm'),
                 \* recorders, live microphone streams, queued stop events,
                 \* timers, clock
                 supportsWebm |-> webm, liveStreams |-> 0,
                 mrs |-> <<>>, stopQ |-> <<>>, timers |-> {}, now |-> 0,
                 awaiting |-> 0, starts |-> 0, uploading |-> FALSE,
                 \* history
                 since |-> 0, last |-> "none", userStopped |-> FALSE, ups |-> 0,
                 countAtMount |-> 0, delivered |-> <<>>]
    /\ clock = HarnessClock
    /\ files = {}
    /\ ledger = <<>>
    /\ reqs = <<>>
    /\ fnIn = NoMeta
    /\ fnOut = HarnessOff
    /\ proc = [pc |-> "off", code |-> 0, failed |-> "none"]
    /\ save = SaveOff

notPage == <<clock, files, ledger, reqs, fnIn, fnOut, proc, save>>

\* Index, effect on uploadedCount: reads today's key and, if it holds a
\* string, takes the count from it (the effect also registers the listener
\* for 'survey-upload-success')
PageMount ==
    /\ page.pc = "loaded" /\ ~page.mounted
    /\ page' = [page EXCEPT
                  !.mounted = TRUE,
                  !.uploadedCount = IF page.storage.t = "string"
                                    THEN page.storage.n ELSE @,
                  !.countAtMount = IF page.storage.t = "string"
                                   THEN page.storage.n ELSE 0]
    /\ UNCHANGED notPage

\* Index, handleUpload: the listener for 'survey-upload-success'
HandleUploadSuccess(p) ==
    [p EXCEPT !.uploadedCount = p.uploadedCount + 1,
              !.storage = Item(p.uploadedCount + 1)]

Recording(p) == p.cur # 0 /\ p.mrs[p.cur] = "recording"

\* MediaRecorder.stop() on the current recorder: it becomes inactive and its
\* stop event is queued
StopCurrent(p, why) ==
    [p EXCEPT !.mrs[p.cur] = "inactive",
              !.stopQ = Append(@, [id |-> p.cur, why |-> why])]

\* cleanup: clears the timer of timerRef, stops the current recorder unless
\* it is inactive, empties the chunks
cleanup(p, why) ==
    LET a == [p EXCEPT !.timers = {t \in @ : t.id # p.timerRef},
                       !.timerRef = 0]
        b == IF Recording(a) THEN StopCurrent(a, why) ELSE a
    IN  [b EXCEPT !.chunks = <<>>]

\* stopRecording
stopRecording(p) ==
    cleanup(IF Recording(p) THEN StopCurrent(p, "user") ELSE p, "user")

\* resetRecording
resetRecording(p) ==
    [cleanup(p, "reset") EXCEPT !.blob = NoBlob, !.durationMs = 0,
                                !.error = FALSE, !.state = "idle"]

\* ItemRow, handleRecord: Stop while the hook's state is 'recording',
\* else startRecording, which awaits getUserMedia
ClickRecord ==
    /\ page.pc = "loaded" /\ page.mounted
    /\ page.state \in {"idle", "recording", "error"}
    /\ IF page.state = "recording"
       THEN page' = [stopRecording(page) EXCEPT !.userStopped = TRUE,
                                                !.last = "stopRecording"]
       ELSE /\ page.starts < MaxStarts
            /\ page' = [page EXCEPT !.error = FALSE, !.awaiting = @ + 1,
                                    !.starts = @ + 1]
    /\ UNCHANGED notPage

\* startRecording after getUserMedia: a rejection ends in the catch block,
\* and so does a browser without audio/webm (the stream it was given stays
\* open); else a new MediaRecorder replaces the current one, starts, and
\* the auto-stop timer is set
\* (history: delivered is what ondataavailable has been given since)
GotStream ==
    /\ page.pc = "loaded" /\ page.awaiting > 0
    /\ \E granted \in BOOLEAN :
         LET k == Len(page.mrs) + 1 IN
         page' = IF ~granted
                 THEN [page EXCEPT !.awaiting = @ - 1, !.error = TRUE,
                                   !.state = "error", !.last = "startFailed"]
                 ELSE IF ~page.supportsWebm
                 THEN [page EXCEPT !.awaiting = @ - 1, !.error = TRUE,
                                   !.liveStreams = @ + 1,
                                   !.state = "error", !.last = "startFailed"]
                 ELSE [page EXCEPT
                         !.awaiting = @ - 1,
                         !.liveStreams = @ + 1,
                         !.mrs = Append(@, "recording"),
                         !.cur = k,
                         !.chunks = <<>>,
                         !.delivered = <<>>,
                         !.startTime = page.now,
                         !.state = "recording",
                         !.since = IF page.state = "recording" THEN @
                                   ELSE page.now,
                         !.timers = @ \cup {[id |-> k,
                                             due |-> page.now + MAX_DURATION_MS]},
                         !.timerRef = k,
                         !.last = "startRecording"]
    /\ UNCHANGED notPage

\* an auto-stop callback that stops nothing
AutoStop_neverStops ==
    /\ page.pc = "loaded"
    /\ \E t \in page.timers :
         /\ t.due <= page.now
         /\ page' = [page EXCEPT !.timers = @ \ {t}]
    /\ UNCHANGED notPage

\* the auto-stop callback of setTimeout: stops the current recorder if it
\* is recording
AutoStop ==
    /\ page.pc = "loaded"
    /\ \E t \in page.timers :
         /\ t.due <= page.now
         /\ LET p == [page EXCEPT !.timers = @ \ {t}]
            IN  page' = IF Recording(p) THEN StopCurrent(p, "timer") ELSE p
    /\ UNCHANGED notPage

\* mediaRecorder.onstop: the blob of the chunks, the duration since
\* startTimeRef, state 'ready', and the tracks of the recorder's stream are
\* stopped (what the recorder gathered since its last timeslice is nothing
\* at the instants of this clock)
OnStop ==
    /\ page.pc = "loaded" /\ page.stopQ # <<>>
    /\ page' = [page EXCEPT
                  !.stopQ = Tail(@),
                  !.blob = BlobOf(page.chunks),
                  !.durationMs = page.now - page.startTime,
                  !.state = "ready",
                  !.liveStreams = @ - 1,
                  !.last = CASE Head(page.stopQ).why = "timer" -> "autoStop"
                             [] Head(page.stopQ).why = "user" -> "userStop"
                             [] OTHER -> "onstop"]
    /\ UNCHANGED notPage

\* mediaRecorder.onerror of a recorder that is recording
OnError ==
    /\ page.pc = "loaded"
    /\ \E k \in 1..Len(page.mrs) : page.mrs[k] = "recording"
    /\ page' = [cleanup([page EXCEPT !.error = TRUE, !.state = "error"],
                        "error")
                EXCEPT !.last = "onerror"]
    /\ UNCHANGED notPage

\* ItemRow, handleRetake
ClickRetake ==
    /\ page.pc = "loaded"
    /\ page.state \in {"ready", "uploaded", "error"}
    /\ page' = [resetRecording(page) EXCEPT !.last = "resetRecording"]
    /\ UNCHANGED notPage

\* ItemRow, handleUpload up to the await of api.uploadRecording
ClickUpload ==
    /\ page.pc = "loaded"
    /\ page.state = "ready" /\ ~page.uploading
    /\ page.blob # NoBlob
    /\ page' = [page EXCEPT !.state = "uploading", !.uploading = TRUE,
                            !.last = "handleUpload"]
    /\ UNCHANGED notPage

\* ItemRow, handleUpload after the await: the response is 2xx (state
\* 'uploaded', a toast) or api.uploadRecording threw (state 'error')
UploadResult ==
    /\ page.pc = "loaded" /\ page.uploading
    /\ \E ok \in BOOLEAN :
         page' = [page EXCEPT !.uploading = FALSE,
                              !.state = IF ok THEN "uploaded" ELSE "error",
                              !.ups = IF ok THEN @ + 1 ELSE @,
                              !.last = "uploadResult"]
    /\ UNCHANGED notPage

MinDue(p) == CHOOSE d \in {t.due : t \in p.timers} :
                \A t \in p.timers : d <= t.due

\* ondataavailable of the recorders that are recording, in the order of
\* their creation, from recorder k on
RECURSIVE Delivery(_, _, _)
Delivery(mrs, k, at) ==
    IF k > Len(mrs) THEN <<>>
    ELSE (IF mrs[k] = "recording" THEN <<Chunk(k, at)>> ELSE <<>>)
         \o Delivery(mrs, k + 1, at)

\* time passes up to the next timer, whose callback runs when it is due or
\* up to LagMs later; events that are due run first; the recorders that
\* are recording deliver their chunks (start(100))
Tick ==
    /\ page.pc = "loaded"
    /\ page.now < MaxTicks * TickMs
    /\ page.stopQ = <<>>
    /\ \A t \in page.timers : t.due > page.now
    /\ \E lag \in {0, LagMs} :
         LET to == page.now + TickMs
             next == IF page.timers # {} /\ MinDue(page) <= to
                     THEN MinDue(page) + lag ELSE to
             got == Delivery(page.mrs, 1, next)
         IN  page' = [page EXCEPT !.now = next,
                                  !.chunks = @ \o got,
                                  !.delivered = @ \o got]
    /\ UNCHANGED notPage

NextPage ==
    \/ PageMount
    \/ ClickRecord
    \/ GotStream
    \/ AutoStop
    \/ OnStop
    \/ OnError
    \/ ClickRetake
    \/ ClickUpload
    \/ UploadResult
    \/ Tick

SpecPage == InitPage /\ [][NextPage]_vars

-----------------------------------------------------------------------------
(* The save-recording route: POST /save-recording writes the uploaded audio *)
(* to a temporary file, converts it with ffmpeg, removes the temporary file *)
(* and writes the transcript. Time is in milliseconds.                      *)

\* save-recording requests handled in one run
MaxSave == 2
\* step of the clock of the save-recording model, in milliseconds
SaveTickMs == 500
\* steps the clock takes
MaxSaveTicks == 3

SaveIds == 1..MaxSave

\* new Date().toISOString().slice(0, 19).replace(/:/g, '-'): the date and
\* time of day without the milliseconds, identified by the second it names
Timestamp(ms) == ms \div 1000

Stamps == {Timestamp(k * SaveTickMs) : k \in 0..MaxSaveTicks}

\* join(recordingsDir, `recording_${timestamp}.wav`) and the two other paths
wavPath(timestamp) == [kind |-> "recording", ts |-> timestamp]
transcriptPath(timestamp) == [kind |-> "transcript", ts |-> timestamp]
tempWebmPath(timestamp) == [kind |-> "temp", ts |-> timestamp]

SavePaths == [kind : {"recording", "transcript", "temp"}, ts : Stamps]

\* contents of a path of the recordings directory
NoSaved == [t |-> "absent"]
\* audioFile.buffer of request s
WebmOf(s) == [t |-> "webm", audio |-> s]
\* the wav ffmpeg produces from a webm file
WavOf(webm) == [t |-> "wav", audio |-> webm.audio]
\* req.body.transcript of request s, when it was sent
TranscriptOf(s) == Str(<<"t", DigitSeq[s + 1]>>)
\* transcript || ''
TranscriptOr(v) == IF Truthy(v) THEN v.s ELSE <<>>
\* JSON.stringify(transcriptData)
transcriptData(transcript, timestamp) ==
    [t |-> "json", transcript |-> TranscriptOr(transcript),
     audioFile |-> wavPath(timestamp)]

IdleSave ==
    [pc |-> "idle", transcript |-> Undef, ts |-> 0, res |-> [status |-> 0],
     \* history
     wroteTemp |-> FALSE, unlinkFailed |-> FALSE]

InitSave ==
    /\ save = [pc |-> "on", now |-> 0,
               dir |-> [p \in SavePaths |-> NoSaved],
               reqs |-> [s \in SaveIds |-> IdleSave]]
    /\ clock = HarnessClock
    /\ files = {}
    /\ ledger = <<>>
    /\ reqs = <<>>
    /\ fnIn = NoMeta
    /\ fnOut = HarnessOff
    /\ proc = [pc |-> "off", code |-> 0, failed |-> "none"]
    /\ page = PageOff

notSave == <<clock, files, ledger, reqs, fnIn, fnOut, proc, page>>

\* the catch block: 500 with the message of the error
SaveFailed(q, details) ==
    [q EXCEPT !.pc = "done", !.res = [status |-> 500, details |-> details]]

\* the handler up to its first await: 400 without a file part; otherwise
\* the timestamp is taken and the temporary file's write is issued
SaveStart(s) ==
    /\ save.pc = "on" /\ save.reqs[s].pc = "idle"
    /\ \E audioFile \in BOOLEAN, transcript \in {Undef, TranscriptOf(s)} :
         save' = [save EXCEPT !.reqs[s] =
                    IF ~audioFile
                    THEN [@ EXCEPT !.pc = "done", !.transcript = transcript,
                                   !.res = [status |-> 400]]
                    ELSE [@ EXCEPT !.pc = "writeTemp",
                                   !.transcript = transcript,
                                   !.ts = Timestamp(save.now)]]
    /\ UNCHANGED notSave

\* await writeFile(tempWebmPath, audioFile.buffer)
SaveWriteTemp(s) ==
    /\ save.pc = "on" /\ save.reqs[s].pc = "writeTemp"
    /\ \E ok \in BOOLEAN :
         LET q == save.reqs[s] IN
         IF ok
         THEN save' = [save EXCEPT
                         !.dir[tempWebmPath(q.ts)] = WebmOf(s),
                         !.reqs[s] = [q EXCEPT !.pc = "convert",
                                               !.wroteTemp = TRUE]]
         ELSE save' = [save EXCEPT !.reqs[s] = SaveFailed(q, "writeTemp")]
    /\ UNCHANGED notSave

\* ffmpeg(tempWebmPath)...save(wavPath): reads the temporary file as it is
\* when ffmpeg runs and writes the wav; 'error' (a missing or unreadable
\* input) rejects, and the catch block answers 500
SaveConvert(s) ==
    /\ save.pc = "on" /\ save.reqs[s].pc = "convert"
    /\ \E ok \in BOOLEAN :
         LET q == save.reqs[s]
             temp == save.dir[tempWebmPath(q.ts)]
         IN  IF ok /\ temp # NoSaved
             THEN save' = [save EXCEPT
                             !.dir[wavPath(q.ts)] = WavOf(temp),
                             !.reqs[s] = [q EXCEPT !.pc = "unlink"]]
             ELSE save' = [save EXCEPT !.reqs[s] = SaveFailed(q, "ffmpeg")]
    /\ UNCHANGED notSave

\* fs.promises.unlink(tempWebmPath) in its own try: a failure (the file is
\* gone, or the unlink is refused) is logged and the handler goes on
SaveUnlink(s) ==
    /\ save.pc = "on" /\ save.reqs[s].pc = "unlink"
    /\ \E ok \in BOOLEAN :
         LET q == save.reqs[s] IN
         IF ok /\ save.dir[tempWebmPath(q.ts)] # NoSaved
         THEN save' = [save EXCEPT
                         !.dir[tempWebmPath(q.ts)] = NoSaved,
                         !.reqs[s] = [q EXCEPT !.pc = "writeTranscript"]]
         ELSE save' = [save EXCEPT
                         !.reqs[s] = [q EXCEPT !.pc = "writeTranscript",
                                               !.unlinkFailed = TRUE]]
    /\ UNCHANGED notSave

\* await writeFile(transcriptPath, ...) and res.json({ success: true, ... })
SaveWriteTranscript(s) ==
    /\ save.pc = "on" /\ save.reqs[s].pc = "writeTranscript"
    /\ \E ok \in BOOLEAN :
         LET q == save.reqs[s] IN
         IF ok
         THEN save' = [save EXCEPT
                         !.dir[transcriptPath(q.ts)] =
                             transcriptData(q.transcript, q.ts),
                         !.reqs[s] = [q EXCEPT
                             !.pc = "done",
                             !.res = [status |-> 200,
                                      audio |-> wavPath(q.ts),
                                      transcript |-> transcriptPath(q.ts),
                                      timestamp |-> q.ts]]]
         ELSE save' = [save EXCEPT
                         !.reqs[s] = SaveFailed(q, "writeTranscript")]
    /\ UNCHANGED notSave

\* time passes
SaveTick ==
    /\ save.pc = "on"
    /\ save.now < MaxSaveTicks * SaveTickMs
    /\ save' = [save EXCEPT !.now = @ + SaveTickMs]
    /\ UNCHANGED notSave

NextSave ==
    \/ SaveTick
    \/ \E s \in SaveIds :
         \/ SaveStart(s)
         \/ SaveWriteTemp(s)
         \/ SaveConvert(s)
         \/ SaveUnlink(s)
         \/ SaveWriteTranscript(s)

SpecSave == InitSave /\ [][NextSave]_vars

----------------------------------------------------------------------------
(* Claims about the filename generator (checked under SpecName).           *)

HasChar(s, c) == \E i \in 1..Len(s) : s[i] = c
HasDotDot(s) == \E i \in 1..(Len(s) - 1) : s[i] = "." /\ s[i + 1] = "."

\* the item-name portion of a generated filename: what stands between
\* "survey_" and the 39 characters "_{timestamp}_{shortId}.webm"
NamePortion(filename) == SubSeq(filename, 8, Len(filename) - 39)

SafePortion(x) ==
    /\ \A i \in 1..Len(x) : x[i] \in LowerSet \cup DigitSet \cup {"_"}
    /\ \A i \in 1..(Len(x) - 1) : ~(x[i] = "_" /\ x[i + 1] = "_")
    /\ Len(x) <= 50
    /\ ~HasChar(x, "/") /\ ~HasDotDot(x)
    /\ \A i \in 1..Len(x) : x[i] \notin SpaceSet

\* C9: for every item-name string, the item-name portion produced by
\* createSafeFilename consists only of lowercase alphanumerics and the '_'
\* separator, has no two adjacent separators, is at most 50 characters long
\* and contains no '/', no '..' and no whitespace.
C9_SafeItemName ==
    /\ fnOut.op = "createSafeFilename" => SafePortion(fnOut.safe)
    /\ (fnOut.op = "storage.filename" /\ ~fnOut.res.err)
          => SafePortion(NamePortion(fnOut.res.filename))

\* C9 witness: a name longer than the limit, with an upper-case letter, a
\* '/', and whitespace, has been sanitised to exactly 50 characters.
C9_Witness ==
    /\ fnOut.op = "createSafeFilename"
    /\ Len(fnIn.itemName.s) > 50
    /\ HasChar(fnIn.itemName.s, "/") /\ HasChar(fnIn.itemName.s, "Z")
    /\ HasChar(fnIn.itemName.s, " ")
    /\ Len(fnOut.safe) = 50
    /\ HasChar(fnOut.safe, "_") /\ HasChar(fnOut.safe, "z")

HarnessStamp ==
    <<"2","0","2","5","-","0","8","-","2","0","T","0","0","-","0","0","-",
      "0","0","-","0","0","7","Z">>

StringOrAbsent(v) == v.t \in {"string", "undefined"}

\* C10: for every upload whose metadata itemName is a string (or absent),
\* filename generation raises no error and yields
\* survey_{safeItemName}_{timestamp}_{shortId}.webm; an empty or absent item
\* name gives the item-name portion 'unknown'.
C10_FilenameAlwaysProduced ==
    (fnOut.op = "storage.filename" /\ fnIn.t # "garbage"
        /\ StringOrAbsent(ParseMeta(fnIn).itemName))
    => /\ ~fnOut.res.err
       /\ LET f == fnOut.res.filename
              n == Len(f)
          IN /\ n >= 46
             /\ SubSeq(f, 1, 7) = <<"s","u","r","v","e","y","_">>
             /\ SubSeq(f, n - 38, n) =
                    <<"_">> \o HarnessStamp \o <<"_">> \o fnOut.uuid
                        \o <<".","w","e","b","m">>
             /\ ~Truthy(ParseMeta(fnIn).itemName)
                    => NamePortion(f) = <<"u","n","k","n","o","w","n">>

\* C10 witness: generation has run for an empty item name, for an absent
\* one and for a non-empty one (one state each; this is the empty one).
C10_Witness ==
    /\ fnOut.op = "storage.filename"
    /\ fnIn.t = "json" /\ fnIn.itemName = Str(<<>>)
    /\ ~fnOut.res.err
    /\ NamePortion(fnOut.res.filename) = Unknown

----------------------------------------------------------------------------
(* Claims about the upload pipeline, download and delete (checked under    *)
(* Spec).                                                                  *)

UploadDone(r) == reqs[r].kind = "upload" /\ reqs[r].pc = "done"
DeleteDoneReq(r) == reqs[r].kind = "delete" /\ reqs[r].pc = "done"
FilesOf(r) == {f \in files : f.by = r}
EntriesOf(r) ==
    {d \in Days : \E i \in 1..Len(ledger[d].logs) : ledger[d].logs[i].recordingId = r}

\* the request carries a good file part and metadata whose only fault is a
\* numeric durationMs above the maximum
TooLongUpload(q) ==
    /\ q.kind = "upload"
    /\ q.file = [field |-> "file", mimetype |-> "audio/webm", big |-> FALSE]
    /\ q.metaText.t = "json"
    /\ Truthy(q.metaText.itemName) /\ Truthy(q.metaText.timestamp)
    /\ q.metaText.durationMs.t = "number" /\ q.metaText.durationMs.n > MaxDurationSec * 1000

\* C1: an upload whose durationMs exceeds MAX_DURATION_SEC x 1000 is answered
\* with 400 'Recording too long'; after the response the store holds no
\* artifact of that request (list-recordings shows none) and no ledger entry
\* has been appended for it.
C1_TooLongStoresNothing ==
    \A r \in ReqIds :
        (UploadDone(r) /\ TooLongUpload(reqs[r]))
        => /\ reqs[r].status = 400 /\ reqs[r].error = "Recording too long"
           /\ FilesOf(r) = {}
           /\ reqs[r].stored.t = "string" => reqs[r].stored.s \notin RecordingsList
           /\ EntriesOf(r) = {}

\* C2: for every upload the validator rejects, whichever check fails, the
\* store holds after the response what it held before: the request leaves
\* no file behind.
C2_RejectedLeavesNoFile ==
    \A r \in ReqIds :
        (UploadDone(r) /\ reqs[r].status >= 400) => FilesOf(r) = {}

WrongMime(q) ==
    /\ q.kind = "upload"
    /\ \E i \in 1..Len(q.parts) : q.parts[i] = "file"
    /\ q.file.mimetype # "audio/webm"

\* C3: an upload whose file part is not audio/webm is rejected before the
\* storage engine writes anything for it: no write step of the request ever
\* happens, and its response is a 4xx error.
C3_WrongMimeNeverWritten ==
    \A r \in ReqIds :
        WrongMime(reqs[r])
        => /\ ~reqs[r].wrote /\ reqs[r].stored.t = "undefined"
           /\ FilesOf(r) = {}
           /\ reqs[r].pc = "done" => (reqs[r].status >= 400 /\ reqs[r].status < 500)

\* C3 witness: an audio/mpeg upload in the expected field has been answered.
C3_Witness ==
    \E r \in ReqIds :
        /\ UploadDone(r) /\ WrongMime(reqs[r]) /\ reqs[r].file.field = "file"
        /\ reqs[r].status = 400 /\ reqs[r].error = "Upload failed"

\* the positions in `after` of the entries that `before` does not account
\* for (an entry counts as often as it occurs)
Occurrences(seq, e) == Cardinality({i \in 1..Len(seq) : seq[i] = e})
NewEntries(before, after) ==
    {i \in 1..Len(after) :
        Occurrences(SubSeq(after, 1, i), after[i]) > Occurrences(before, after[i])}

OneNewEntry(before, after, filename) ==
    /\ Cardinality(NewEntries(before, after)) = 1
    /\ \A i \in NewEntries(before, after) : after[i].filename = filename

Upload201(r) == UploadDone(r) /\ reqs[r].status = 201

\* C4 as claimed: after an upload that returns 201, list-logs-for-today
\* holds exactly one entry that was not there before the upload, and its
\* filename is the one of the upload response.
C4_OneNewEntryToday ==
    \A r \in ReqIds :
        Upload201(r)
        => OneNewEntry(LogsOf(reqs[r].ledger0, reqs[r].startDay),
                       reqs[r].listToday, reqs[r].reqFile.s)

\* C4 as amended: after an upload that returns 201, whose write of the
\* day-file succeeded and during whose handling no other request wrote the
\* store or the ledger, the listing of
\* the day-file the entry was appended to (today's, unless midnight passed
\* during the upload) holds right after the response exactly one entry that
\* was not there before the upload, with the filename of the response.
C4_OneNewEntryOnAppendDay ==
    \A r \in ReqIds :
        (Upload201(r) /\ ~reqs[r].dirty /\ ~reqs[r].writeFailed)
        => OneNewEntry(LogsOf(reqs[r].ledger0, reqs[r].logDay),
                       reqs[r].listLogDay, reqs[r].reqFile.s)

\* C4 witness: an upload has returned 201 undisturbed, into a day-file
\* that already held an entry.
C4_Witness ==
    \E r \in ReqIds :
        /\ Upload201(r) /\ ~reqs[r].dirty
        /\ Len(LogsOf(reqs[r].ledger0, reqs[r].logDay)) = 1
        /\ Len(reqs[r].listLogDay) = 2

Delete200(r) == DeleteDoneReq(r) /\ reqs[r].status = 200

InWindow(q, d) == d <= q.rmDay /\ d > q.rmDay - LookbackDays

SafeName(fn) == ~HasChar(fn, "/") /\ ~HasDotDot(fn) /\ fn # <<>>

\* C6: a DELETE for a safe filename whose artifact does not exist returns
\* 404, does not invoke the ledger removal and leaves every day-file as it
\* was, even when a day-file holds an entry with that filename.
C6_DeleteMissingIs404 ==
    \A r \in ReqIds :
        (reqs[r].kind = "delete" /\ SafeName(reqs[r].filename) /\ ~reqs[r].found)
        => /\ reqs[r].pc = "done" /\ reqs[r].status = 404
           /\ ~reqs[r].rmInvoked /\ ~reqs[r].wroteLedger

\* C6 witness: a delete has returned 404 while a day-file holds an entry
\* with its filename.
C6_Witness ==
    \E r \in ReqIds :
        /\ DeleteDoneReq(r) /\ reqs[r].status = 404
        /\ DaysNaming(ledger, reqs[r].filename) # {}

\* C7: for download and delete, every filename with a '/' or a '..' in it
\* is rejected with 400 before any filesystem operation (access, open,
\* unlink, ledger read or write) is made for the request.
C7_TraversalRejected ==
    \A r \in ReqIds :
        (/\ reqs[r].kind \in {"download", "delete"}
         /\ (HasChar(reqs[r].filename, "/") \/ HasDotDot(reqs[r].filename)))
        => /\ reqs[r].pc = "done" /\ reqs[r].status = 400
           /\ ~reqs[r].touchedFs /\ ~reqs[r].rmInvoked /\ ~reqs[r].wroteLedger

\* C7 witness: a download of "../x" and a delete of "a..b" have both been
\* answered 400.
C7_Witness ==
    \E r1, r2 \in ReqIds :
        /\ reqs[r1].kind = "download" /\ reqs[r1].filename = <<".", ".", "/", "x">>
        /\ reqs[r1].status = 400
        /\ reqs[r2].kind = "delete" /\ reqs[r2].filename = <<"a", ".", ".", "b">>
        /\ reqs[r2].status = 400

Stored(r) == reqs[r].kind = "upload" /\ reqs[r].wrote

\* C8 as claimed: any two uploads of one process lifetime are stored under
\* distinct filenames.
C8_DistinctFilenames ==
    \A r1, r2 \in ReqIds :
        (r1 # r2 /\ Stored(r1) /\ Stored(r2))
        => reqs[r1].stored # reqs[r2].stored

\* C8 as amended: two uploads are stored under distinct filenames whenever
\* they were named in different milliseconds or drew different random
\* suffixes (nothing else keeps two names apart).
C8_DistinctWhenStampOrSuffixDiffer ==
    \A r1, r2 \in ReqIds :
        (/\ r1 # r2 /\ Stored(r1) /\ Stored(r2)
         /\ (reqs[r1].namedAt # reqs[r2].namedAt \/ reqs[r1].uuid # reqs[r2].uuid))
        => reqs[r1].stored # reqs[r2].stored

\* C8 witness: two uploads named in the same millisecond with different
\* suffixes, and both files are in the store.
C8_Witness ==
    \E r1, r2 \in ReqIds :
        /\ r1 # r2 /\ Stored(r1) /\ Stored(r2)
        /\ reqs[r1].namedAt = reqs[r2].namedAt /\ reqs[r1].uuid # reqs[r2].uuid
        /\ FilesOf(r1) # {} /\ FilesOf(r2) # {}

----------------------------------------------------------------------------
(* Claims about the upload as the client sends it, the ledger append and   *)
(* the log listing (checked under Spec).                                   *)

\* the multipart body of api.uploadRecording and of the README's cURL
\* example: the file part, then the meta part
ClientOrder(q) == q.kind = "upload" /\ q.parts = <<"file", "meta">>

HasEntry(logs, itemName, durationMs) ==
    \E i \in 1..Len(logs) :
        logs[i].itemName = itemName /\ logs[i].durationMs = durationMs

\* C11: a valid upload sent with the file part before the meta part for
\* item name N returns a filename whose item-name portion is the sanitised
\* N ('Idli' gives survey_idli_...), and the day-file then holds an entry
\* with that itemName and durationMs.
C11_FilenameCarriesItemName ==
    \A r \in ReqIds :
        (Upload201(r) /\ ClientOrder(reqs[r]))
        => LET meta == ParseMeta(reqs[r].bodyMeta) IN
           /\ NamePortion(reqs[r].reqFile.s) = createSafeFilename(meta.itemName.s)
           /\ HasEntry(reqs[r].listLogDay, meta.itemName, meta.durationMs)

Names(logs, r) == \E i \in 1..Len(logs) : logs[i].recordingId = r

\* both uploads read the day-file before the other one wrote it
ReadBeforeEitherWrote(r1, r2) ==
    /\ reqs[r1].logDay = reqs[r2].logDay
    /\ ~Names(reqs[r1].logs, r2) /\ ~Names(reqs[r2].logs, r1)

\* C12: when two uploads on the same day-file both read it before either
\* writes it, both return 201 and the day-file does not hold both entries:
\* the earlier writer's entry is replaced by the later writer's array.
C12_LastWriterWins ==
    \A r1, r2 \in ReqIds :
        (/\ r1 # r2 /\ Upload201(r1) /\ Upload201(r2)
         /\ ReadBeforeEitherWrote(r1, r2))
        => ~(/\ Names(RecordingLogs(reqs[r1].logDay), r1)
             /\ Names(RecordingLogs(reqs[r1].logDay), r2))

\* C12 witness: both uploads returned 201 after writing the day-file; the
\* first writer's entry was in the file after its write and is gone, and the
\* file is the array the second one wrote, holding its entry alone.
C12_Witness ==
    \E r1, r2 \in ReqIds :
        /\ r1 # r2 /\ Upload201(r1) /\ Upload201(r2)
        /\ ReadBeforeEitherWrote(r1, r2)
        /\ ~reqs[r1].writeFailed /\ ~reqs[r2].writeFailed
        /\ Names(reqs[r1].listLogDay, r1)
        /\ ~Names(RecordingLogs(reqs[r1].logDay), r1)
        /\ RecordingLogs(reqs[r2].logDay) = reqs[r2].listLogDay
        /\ Len(reqs[r2].listLogDay) = 1 /\ Names(reqs[r2].listLogDay, r2)

\* the metadata text of the request as sent (absent when there is no part)
SentMeta(q) ==
    IF \E i \in 1..Len(q.parts) : q.parts[i] = "meta" THEN q.metaText ELSE NoMeta

MissingField(meta) ==
    ~Truthy(meta.itemName) \/ ~Truthy(meta.timestamp) \/ ~Truthy(meta.durationMs)

\* the earliest check of the specified order that the request as sent fails
FirstFailedCheck(q) ==
    LET meta == ParseMeta(SentMeta(q)) IN
    IF (\A i \in 1..Len(q.parts) : q.parts[i] # "file") \/ q.file.field # "file"
    THEN "file"
    ELSE IF q.file.mimetype # "audio/webm" THEN "type"
    ELSE IF q.file.big THEN "size"
    ELSE IF ~meta.ok THEN "json"
    ELSE IF MissingField(meta) THEN "fields"
    ELSE IF GreaterThan(meta.durationMs, MaxDurationSec * 1000) THEN "duration"
    ELSE "none"

\* the check a response reports
ReportedCheck(q) ==
    CASE q.status = 201 -> "none"
      [] q.status = 413 /\ q.error = "File too large" -> "size"
      [] q.status = 400 /\ q.error \in {"No file uploaded", "Unexpected file field"}
            -> "file"
      [] q.status = 400 /\ q.error = "Upload failed"
            /\ q.message = "Only audio/webm files are allowed" -> "type"
      [] q.status = 400 /\ q.error = "Invalid metadata"
            /\ q.message = "Metadata must be valid JSON" -> "json"
      [] q.status = 400 /\ q.error = "Invalid metadata"
            /\ q.message = "Missing required fields: itemName, timestamp, durationMs"
            -> "fields"
      [] q.status = 400 /\ q.error = "Recording too long" -> "duration"
      [] OTHER -> "other"

\* C13: the checks are applied in the order file present, MIME type, file
\* size, metadata parses, required fields, duration; a request that fails
\* several of them is answered with the error and status of the earliest
\* one (saving the file did not fail).
C13_ChecksInFixedOrder ==
    \A r \in ReqIds :
        (UploadDone(r) /\ ~reqs[r].saveFailed)
        => ReportedCheck(reqs[r]) = FirstFailedCheck(reqs[r])

Absent(v) == v.t = "undefined"
AbsentOrEmpty(v) == Absent(v) \/ (v.t = "string" /\ v.s = <<>>)

\* the upload got as far as the required-fields check: multer stored the
\* file and the metadata parsed
ReachedFieldsCheck(q) ==
    /\ q.kind = "upload" /\ q.pc = "done"
    /\ q.reqFile.t = "string" /\ ParseMeta(q.bodyMeta).ok

\* C14: an upload with parsable metadata is rejected with the 400 'missing
\* required fields' error exactly when itemName is absent or empty,
\* timestamp is absent or durationMs is absent; a present numeric
\* durationMs, 0 included, passes the check.
C14_MissingFieldsIffAbsent ==
    \A r \in ReqIds :
        ReachedFieldsCheck(reqs[r])
        => LET meta == ParseMeta(reqs[r].bodyMeta) IN
           (ReportedCheck(reqs[r]) = "fields")
             <=> (\/ AbsentOrEmpty(meta.itemName)
                  \/ Absent(meta.timestamp)
                  \/ Absent(meta.durationMs))

\* the metadata and the file part of the request as sent pass every check
ValidAsSent(q) == q.kind = "upload" /\ FirstFailedCheck(q) = "none"

\* C15: a filesystem error while the artifact of an otherwise valid upload
\* is saved makes the request fail with status 500, and no ledger entry is
\* appended for it.
C15_SaveErrorIs500 ==
    \A r \in ReqIds :
        (UploadDone(r) /\ ValidAsSent(reqs[r]) /\ reqs[r].saveFailed)
        => (reqs[r].status = 500 /\ EntriesOf(r) = {})

\* the ledger append of the upload met a filesystem failure
AppendFailed(q) == q.kind = "upload" /\ (q.readFailed \/ q.writeFailed)

\* C16: when the ledger append of an otherwise valid upload fails, the
\* request is still answered 201 and its artifact is still in the store
\* right after the response (no other request having written meanwhile):
\* the failure is only logged.
C16_LedgerFailureKeepsArtifact ==
    \A r \in ReqIds :
        (UploadDone(r) /\ AppendFailed(reqs[r]))
        => /\ reqs[r].status = 201 /\ reqs[r].error = ""
           /\ reqs[r].body.filename = reqs[r].stored.s
           /\ ~reqs[r].dirty => reqs[r].storedAfter

\* C16 witness: an upload whose write of the day-file failed has returned
\* 201; its artifact is in the store and the day-file has no entry for it.
C16_Witness ==
    \E r \in ReqIds :
        /\ UploadDone(r) /\ reqs[r].writeFailed /\ reqs[r].status = 201
        /\ reqs[r].storedAfter /\ FilesOf(r) # {}
        /\ EntriesOf(r) = {}

\* C17: a successful upload answers 201 with recordingId, filename and the
\* download location (the field `url`); filename is the name under which
\* this request's artifact was stored, and the location is the Download
\* route for that name, which finds the artifact as long as it is stored.
C17_ResponseNamesArtifact ==
    \A r \in ReqIds :
        Upload201(r)
        => LET body == reqs[r].body
               param == DownloadParam(body.url) IN
           /\ body.recordingId = r
           /\ reqs[r].wrote /\ body.filename = reqs[r].stored.s
           /\ param = Str(reqs[r].stored.s)
           /\ ~UnsafeFilename(param.s)
           /\ StoredBy(reqs[r].stored.s, r) => DownloadBegin(param.s).pc = "open"

\* C17 witness: an upload has returned 201 and a download of the filename
\* in its location has then returned 200 while the artifact was stored.
C17_Witness ==
    \E r, d \in ReqIds :
        /\ Upload201(r) /\ StoredBy(reqs[r].stored.s, r)
        /\ reqs[d].kind = "download" /\ reqs[d].pc = "done"
        /\ reqs[d].status = 200
        /\ Str(reqs[d].filename) = DownloadParam(reqs[r].body.url)

\* C18: in every reachable state every entry of every day-file that an
\* upload appended has a numeric durationMs of at most MAX_DURATION_SEC x
\* 1000, whatever the client sent.
C18_LoggedDurationWithinCap ==
    \A d \in Days : \A i \in 1..Len(ledger[d].logs) :
        ledger[d].logs[i].recordingId \in ReqIds
        => /\ ledger[d].logs[i].durationMs.t = "number"
           /\ ledger[d].logs[i].durationMs.n <= MaxDurationSec * 1000

\* C19: for an append that overlaps no other write of the store or the
\* ledger, whatever entries the day-file held before, it holds the same
\* entries in the same order followed by the new entry afterwards.
C19_AppendKeepsEarlierEntries ==
    \A r \in ReqIds :
        (Upload201(r) /\ ~reqs[r].dirty /\ ~reqs[r].writeFailed)
        => reqs[r].listLogDay =
              Append(LogsOf(reqs[r].ledger0, reqs[r].logDay), LogEntry(r, reqs[r]))

ListDone(r) == reqs[r].kind = "logs" /\ reqs[r].pc = "done"

\* C20: listing the logs of a date answers 200 with the entries of that
\* day-file as they are in the file, in file order; when the date has no
\* day-file it answers 200 with an empty sequence, not an error (an error
\* is answered only when an existing day-file cannot be read).
C20_ListLogsVerbatimOrEmpty ==
    \A r \in ReqIds :
        ListDone(r)
        => /\ ~reqs[r].fileThen.exists
                => (reqs[r].status = 200 /\ reqs[r].body = <<>>)
           /\ (reqs[r].fileThen.exists /\ reqs[r].status = 200)
                => reqs[r].body = reqs[r].fileThen.logs
           /\ reqs[r].status # 200
                => (reqs[r].status = 500 /\ reqs[r].fileThen.exists)

\* C20 witness: a day-file that holds an entry has been listed with 200
\* and the body is its array.
C20_Witness ==
    \E r \in ReqIds :
        /\ ListDone(r) /\ reqs[r].status = 200 /\ reqs[r].fileThen.exists
        /\ Len(reqs[r].body) >= 1 /\ reqs[r].body = reqs[r].fileThen.logs

----------------------------------------------------------------------------
(* Claims about the ledger removal, the listings and concurrent downloads  *)
(* and deletes (checked under Spec).                                       *)

\* the days of the window of delete q whose day-file, in ledger lg, names
\* the filename of q
WindowDaysNaming(q, lg) == {d \in DaysNaming(lg, q.filename) : InWindow(q, d)}

Newest(ds) == CHOOSE d \in ds : \A e \in ds : e <= d

\* what the claim says the removal makes of ledger lg
RemovalResult(q, lg) ==
    IF WindowDaysNaming(q, lg) = {} THEN lg
    ELSE LET d == Newest(WindowDaysNaming(q, lg)) IN
         [lg EXCEPT ![d] = LogFile(FilterOut(lg[d].logs, q.filename))]

ListRecDone(r) == reqs[r].kind = "list" /\ reqs[r].pc = "done"

\* the files of the store, as read by the listing, that the query selects
Selected(q) ==
    {f \in q.filesThen :
        /\ EndsWith(f.name, WebmSuffix)
        /\ ~Truthy(q.item)
             \/ Includes(toLowerCase(RecoveredItemName(f.name)), toLowerCase(q.item.s))
        /\ q.date.t = "undefined" \/ f.ctime.day = q.date.n}

----------------------------------------------------------------------------
(* Claims about startup.                                                   *)

\* a request the process has begun to handle or has answered
Served(r) == reqs[r].pc # "idle"

\* C23: if creating the recordings directory or the logs directory failed
\* at startup, the process has exited with status 1, it is not listening
\* and it has handled no request.
C23_StartupFailureExits ==
    proc.failed # "none" =>
        /\ proc.pc = "exited"
        /\ proc.code = 1
        /\ \A r \in ReqIds : ~Served(r)

\* the logs directory could not be created and the process has exited
C23_Witness ==
    /\ proc.failed = StartupDirs[2]
    /\ proc.pc = "exited"

----------------------------------------------------------------------------
(* Claims about the page (checked under SpecPage).                         *)

\* C24: the recorder is never in state 'recording' for more than the
\* 30-second maximum (and the lateness of the timer callback): when the
\* maximum has elapsed the auto-stop timer stops the recorder, and the stop
\* it causes leaves the hook in state 'ready' with a blob.
C24_AutoStopAtMaxDuration ==
    page.pc = "loaded" =>
        /\ page.state = "recording" =>
               page.now - page.since <= MAX_DURATION_MS + LagMs
        /\ page.last = "autoStop" =>
               /\ page.state = "ready"
               /\ page.blob # NoBlob

\* one recording, never stopped by the user, ended by the timer after 30
\* seconds
C24_Witness ==
    /\ page.pc = "loaded"
    /\ page.last = "autoStop"
    /\ page.starts = 1 /\ ~page.userStopped
    /\ page.durationMs = MAX_DURATION_MS
    /\ page.state = "ready"
    /\ page.blob.data # <<>>

\* C25: each successful upload made from the page increases the 'Recorded
\* today' count by one and stores the new count under today's key: with no
\* upload in flight the count is the count found at load plus the
\* successful uploads, and localStorage holds it.
C25_UploadsAreCounted ==
    (page.pc = "loaded" /\ page.mounted /\ ~page.uploading) =>
        /\ page.uploadedCount = page.countAtMount + page.ups
        /\ page.ups > 0 => page.storage = Item(page.uploadedCount)

\* C26: an append that finds no day-file starts from the empty list, and
\* one whose read of an existing day-file fails starts from the empty list
\* too and goes on: once the write has succeeded the day-file holds the new
\* entry (and only it), and the upload is answered 201.
C26_ReadFailureDoesNotAbortAppend ==
    \A r \in ReqIds :
        (UploadDone(r) /\ reqs[r].pc = "done" /\ reqs[r].status = 201
           /\ ~reqs[r].writeFailed
           /\ (reqs[r].readFailed \/ ~reqs[r].existedAtRead))
        => reqs[r].listLogDay = <<LogEntry(r, reqs[r])>>

\* the read of an existing day-file failed and the entry was written
C26_Witness ==
    \E r \in ReqIds :
        /\ Upload201(r) /\ reqs[r].readFailed /\ reqs[r].existedAtRead
        /\ ~reqs[r].writeFailed
        /\ ledger[reqs[r].logDay].exists
        /\ reqs[r].listLogDay = <<LogEntry(r, reqs[r])>>

DownloadDone(r) == reqs[r].kind = "download" /\ reqs[r].pc = "done"

\* C27: a download of a safe filename answers 200 (the artifact is
\* streamed) or 404 (it is absent), also when a delete of the same filename
\* runs between the existence check and the opening of the file.
C27_DownloadAnswers200Or404 ==
    \A r \in ReqIds :
        (DownloadDone(r) /\ ~UnsafeFilename(reqs[r].filename))
        => reqs[r].status \in {200, 404}

HealthDone(r) == reqs[r].kind = "health" /\ reqs[r].pc = "done"

\* the artifacts with the audio extension in a store
AudioArtifacts(fs) == {f \in fs : EndsWith(f.name, WebmSuffix)}

\* C28: the recordingsCount a health check reports is the number of
\* artifacts with the audio extension that were in the Recording Store
\* when it was scanned, whatever uploads and deletes came before.
C28_HealthCountsAudioArtifacts ==
    \A r \in ReqIds :
        (HealthDone(r) /\ reqs[r].status = 200)
        => reqs[r].recordingsCount =
               Cardinality(AudioArtifacts(reqs[r].filesThen))

\* a health check after an upload: it counts the artifact of the earlier
\* run and the uploaded one, not the other file of the directory
C28_Witness ==
    \E r, u \in ReqIds :
        /\ HealthDone(r) /\ reqs[r].status = 200
        /\ Upload201(u) /\ FilesOf(u) \subseteq reqs[r].filesThen
        /\ FilesOf(u) # {}
        /\ reqs[r].recordingsCount = 2
        /\ Cardinality(reqs[r].filesThen) = 3

\* C29: of two DELETE requests for the same filename, at least one of
\* which found the artifact, exactly one is answered 200 and the other 404;
\* neither is answered 500.
C29_ConcurrentDeletesOne200One404 ==
    \A r, q \in ReqIds :
        (/\ r # q
         /\ DeleteDoneReq(r) /\ DeleteDoneReq(q)
         /\ reqs[r].filename = reqs[q].filename
         /\ reqs[r].found \/ reqs[q].found)
        => {reqs[r].status, reqs[q].status} = {200, 404}

\* C30: once a DELETE of the filename an upload stored has returned 200 and
\* no request is in flight any more, no day-file has an entry with that
\* filename, also when the delete ran between the upload's save and its
\* ledger append.
C30_NoEntryAfterDelete ==
    \A d, u \in ReqIds :
        (/\ DeleteDoneReq(d) /\ reqs[d].status = 200
         /\ UploadDone(u) /\ reqs[u].wrote
         /\ reqs[u].stored.s = reqs[d].filename
         /\ \A x \in ReqIds : ~InFlight(reqs[x]))
        => DaysNaming(ledger, reqs[d].filename) = {}

\* C31: a delete never loses the ledger entry of another filename: once no
\* request is in flight, every upload that returned 201 for a filename
\* other than the deleted one, and whose day-file write succeeded, has its
\* entry in a day-file.
C31_DeleteKeepsOtherEntries ==
    \A d, u \in ReqIds :
        (/\ DeleteDoneReq(d)
         /\ Upload201(u) /\ ~reqs[u].writeFailed
         /\ reqs[u].stored.s # reqs[d].filename
         /\ \A x \in ReqIds : ~InFlight(reqs[x]))
        => EntriesOf(u) # {}

\* the request has passed the filename check of its handler
PassedFilenameCheck(q) == q.kind \in {"download", "delete"} /\ q.touchedFs

\* C32: every filename that passes the download/delete filename check
\* resolves to an entry directly inside the Recording Store directory, not
\* to the directory itself and not to a path outside it.
C32_AcceptedNamesStayInStore ==
    \A r \in ReqIds :
        PassedFilenameCheck(reqs[r])
        => LET path == FilePath(reqs[r].filename) IN
           path.up = 0 /\ Len(path.segs) = 1

\* C33: the item-name portion of every generated filename is non-empty (an
\* item name that sanitises to the empty string is stored under the
\* 'unknown' placeholder).
C33_NamePortionNonEmpty ==
    (fnOut.op = "storage.filename" /\ ~fnOut.res.err)
        => NamePortion(fnOut.res.filename) # <<>>

\* the words of a sanitised item name: the runs between its separators
WordsOf(safe) ==
    {SubSeq(safe, p[1], p[2]) :
        p \in {q \in (1..Len(safe)) \X (1..Len(safe)) :
                 /\ q[1] <= q[2]
                 /\ \A k \in q[1]..q[2] : safe[k] # "_"
                 /\ q[1] = 1 \/ safe[q[1] - 1] = "_"
                 /\ q[2] = Len(safe) \/ safe[q[2] + 1] = "_"}}

\* C34: the item name List recordings reports for a stored artifact is the
\* sanitised item name of its filename with the separators shown as
\* spaces, and filtering by any word of that name selects the artifact.
C34_ListedItemNameIsWholeName ==
    fnOut.op = "recordings"
    => LET safe == NamePortion(fnOut.filename) IN
       /\ fnOut.rec.itemName = UnderscoresToSpaces(safe)
       /\ \A w \in WordsOf(safe) : ItemMatches(fnOut.rec, Str(w))

\* C35: when a recording is ended with stopRecording, the blob of state
\* 'ready' is built from every chunk ondataavailable was given since
\* startRecording, in delivery order.
C35_StoppedBlobHasEveryChunk ==
    (page.pc = "loaded" /\ page.last = "userStop")
        => page.blob = BlobOf(page.delivered)

\* the MediaRecorders of the hook that are recording
RecordingNow == {k \in 1..Len(page.mrs) : page.mrs[k] = "recording"}

\* C36: at most one MediaRecorder of the hook is recording at any time, and
\* whenever the hook's state is not 'recording' every microphone stream it
\* acquired has been released.
C36_OneRecorderAndStreamsReleased ==
    page.pc = "loaded" =>
        /\ Cardinality(RecordingNow) <= 1
        /\ page.state # "recording" => page.liveStreams = 0

\* C37: every recording the recorder has made ready carries a durationMs
\* that the server's duration check lets through (it is not greater than
\* the 30-second cap), also when the auto-stop timer ended it.
C37_ClientDurationPassesServerCap ==
    (page.pc = "loaded" /\ page.state = "ready" /\ page.blob # NoBlob)
        => ~GreaterThan(Num(page.durationMs), MaxDurationSec * 1000)

----------------------------------------------------------------------------
(* Claims about the save-recording route (checked under SpecSave).         *)

SaveOk(s) == save.reqs[s].pc = "done" /\ save.reqs[s].res.status = 200

\* C38: two save-recording requests never write to the same temporary,
\* audio or transcript path, and every request that returned success refers
\* to files that hold its own audio and its own transcript, also when both
\* requests are handled within the same second.
C38_SavesKeepOwnFiles ==
    save.pc = "on" =>
        /\ \A s, u \in SaveIds :
             (s # u /\ save.reqs[s].wroteTemp /\ save.reqs[u].wroteTemp) =>
                 save.reqs[s].ts # save.reqs[u].ts
        /\ \A s \in SaveIds :
             SaveOk(s) =>
                 /\ save.dir[save.reqs[s].res.audio] = WavOf(WebmOf(s))
                 /\ save.dir[save.reqs[s].res.transcript] =
                        transcriptData(save.reqs[s].transcript,
                                       save.reqs[s].ts)

\* C39: when a save-recording request has finished, with the conversion
\* succeeded or failed, the temporary file it wrote is gone unless its
\* deletion failed, and a failed deletion does not fail the request.
C39_TempFileRemovedWhenFinished ==
    save.pc = "on" =>
        \A s \in SaveIds :
            (save.reqs[s].pc = "done" /\ save.reqs[s].wroteTemp) =>
                /\ ~save.reqs[s].unlinkFailed =>
                       save.dir[tempWebmPath(save.reqs[s].ts)] = NoSaved
                /\ save.reqs[s].unlinkFailed =>
                       \/ save.reqs[s].res.status = 200
                       \/ save.reqs[s].res.details = "writeTranscript"

====
